---- MODULE Spec2Model ----
(***************************************************************************)
(* OAuth proxy with dynamic-client-registration mimicry                    *)
(* (docker/src/remote_auth.py) over the TTL persistence layer              *)
(* (docker/src/persistence.py).                                            *)
(*                                                                         *)
(* Strings that the code inspects character by character (PKCE verifier,   *)
(* challenge, method) are sequences of code points.  Python's None and the *)
(* empty string are both the empty sequence wherever the code only tests   *)
(* truthiness (`if not code_challenge`, `method or "plain"`).  Opaque      *)
(* strings are TLA+ strings, with NoneVal for Python's None.  Identifiers  *)
(* minted by uuid4 / secrets.token_urlsafe are consecutive naturals: never *)
(* repeated, and any party may present any of them.                        *)
(***************************************************************************)
EXTENDS Integers, Sequences, FiniteSets, TLC

(***************************************************************************)
(* Bounds of the model                                                     *)
(***************************************************************************)
MaxTime == 121
MaxClients == 2
MaxTxns == 1
MaxCodes == 2
MaxCsrf == 1
NWorkers == 2

(***************************************************************************)
(* Program constants                                                       *)
(***************************************************************************)
AUTH_TRANSACTION_TTL_SECONDS == 120
AUTH_CODE_TTL_SECONDS == 120
CLIENT_TTL_SECONDS == 86400
NoneVal == "<None>"

(***************************************************************************)
(* hashlib.sha256 and base64.urlsafe_b64encode, as validate_pkce uses      *)
(* them.  Byte strings and text are sequences of numbers.                  *)
(***************************************************************************)
\* verifiers the clients of the model hold
VerifierA == [i \in 1..43 |-> 97]
VerifierB == [i \in 1..43 |-> 98]
VerifierNewline == [i \in 1..44 |-> IF i = 44 THEN 10 ELSE 97]
VerifierLong == [i \in 1..128 |-> 97]
\* their SHA-256 digests (FIPS 180-4)
DigestA ==
    <<102, 211, 79, 186, 113, 248, 244, 80, 247, 228, 85, 152, 133, 62, 83, 191, 194, 59, 189, 18,
      144, 39, 203, 177, 49, 162, 244, 255, 215, 135, 140, 208>>
DigestB ==
    <<240, 27, 87, 34, 98, 97, 174, 55, 86, 185, 57, 54, 225, 196, 230, 184, 73, 249, 165, 176,
      147, 63, 163, 185, 24, 67, 191, 65, 149, 185, 217, 100>>
DigestNewline ==
    <<203, 183, 83, 24, 227, 14, 22, 79, 221, 58, 217, 175, 93, 28, 68, 178, 180, 226, 74, 149, 87,
      202, 195, 150, 17, 149, 175, 108, 134, 23, 251, 38>>
DigestLong ==
    <<104, 54, 207, 19, 186, 196, 0, 233, 16, 80, 113, 205, 106, 244, 112, 132, 223, 172, 173, 78,
      94, 48, 44, 148, 191, 237, 36, 224, 19, 175, 183, 62>>
\* hashlib.sha256(m).digest(), on the verifiers above
sha256(m) ==
    CASE m = VerifierA -> DigestA
      [] m = VerifierB -> DigestB
      [] m = VerifierNewline -> DigestNewline
      [] m = VerifierLong -> DigestLong
\* base64.urlsafe_b64encode: character i of the output, "=" where the input has run out
B64Alphabet == <<65,66,67,68,69,70,71,72,73,74,75,76,77,78,79,80,81,82,83,84,85,86,87,88,89,90,
                 97,98,99,100,101,102,103,104,105,106,107,108,109,110,111,112,113,114,115,116,117,118,119,120,121,122,
                 48,49,50,51,52,53,54,55,56,57,45,95>>
urlsafe_b64encode(b) ==
    LET byte(k) == IF k <= Len(b) THEN b[k] ELSE 0
        char(i) ==
            LET o == 3 * ((i - 1) \div 4)
                p == (i - 1) % 4
            IN  IF p = 0 THEN B64Alphabet[(byte(o + 1) \div 4) + 1]
                ELSE IF p = 1 THEN B64Alphabet[((byte(o + 1) % 4) * 16 + (byte(o + 2) \div 16)) + 1]
                ELSE IF p = 2 THEN (IF o + 2 > Len(b) THEN 61
                                    ELSE B64Alphabet[((byte(o + 2) % 16) * 4 + (byte(o + 3) \div 64)) + 1])
                ELSE (IF o + 3 > Len(b) THEN 61 ELSE B64Alphabet[(byte(o + 3) % 64) + 1])
    IN  [i \in 1..(4 * ((Len(b) + 2) \div 3)) |-> char(i)]
\* bytes.rstrip(c): s up to its last element other than c
rstrip(s, c) ==
    LET keep == {k \in 0..Len(s) : (k = 0 \/ s[k] # c) /\ \A i \in (k + 1)..Len(s) : s[i] = c}
    IN  SubSeq(s, 1, CHOOSE k \in keep : TRUE)
_base64url_no_pad(b) == rstrip(urlsafe_b64encode(b), 61)

(***************************************************************************)
(* PKCE verification (remote_auth.py, validate_pkce)                       *)
(***************************************************************************)
S256 == <<83, 50, 53, 54>>
PLAIN == <<80, 76, 65, 73, 78>>
plain == <<112, 108, 97, 105, 110>>
PkceAlphabet == (65..90) \cup (97..122) \cup (48..57) \cup {45, 46, 95, 126}
\* re.compile(r"^[A-Za-z0-9\-._~]{43,128}$").match(v): `$` also matches just before one trailing "\n"
_PKCE_VERIFIER_RE(v) ==
    LET body == IF Len(v) > 0 /\ v[Len(v)] = 10 THEN SubSeq(v, 1, Len(v) - 1) ELSE v
    IN  /\ Len(body) >= 43
        /\ Len(body) <= 128
        /\ \A i \in 1..Len(body) : body[i] \in PkceAlphabet
\* str.upper() on the ASCII range
upper(s) == [i \in 1..Len(s) |-> IF s[i] \in 97..122 THEN s[i] - 32 ELSE s[i]]
isascii(s) == \A i \in 1..Len(s) : s[i] < 128
\* m = (method or "plain").upper()
PkceMethod_NoUpper(method) == IF method = <<>> THEN plain ELSE method
PkceMethod(method) == upper(IF method = <<>> THEN plain ELSE method)
\* hmac.compare_digest on two str: TypeError unless both are ASCII
compare_digest(a, b) == IF isascii(a) /\ isascii(b) THEN (IF a = b THEN "equal" ELSE "different") ELSE "TypeError"
\* the outcome of validate_pkce: "ok" when it returns, the detail of the HTTPException(400)
\* it raises, or "TypeError" when compare_digest raises
validate_pkce_NoChallengeOk(code_verifier, code_challenge, method) ==
    IF code_challenge = <<>> THEN "ok"
    ELSE IF code_verifier = <<>> THEN "invalid_request"
    ELSE IF ~_PKCE_VERIFIER_RE(code_verifier) THEN "invalid_request"
    ELSE LET m == PkceMethod(method)
         IN  IF m \notin {S256, PLAIN} THEN "invalid_request"
             ELSE LET computed == IF m = S256 THEN _base64url_no_pad(sha256(code_verifier)) ELSE code_verifier
                      cmp == compare_digest(computed, code_challenge)
                  IN  IF cmp = "equal" THEN "ok" ELSE IF cmp = "different" THEN "invalid_grant" ELSE cmp
validate_pkce(code_verifier, code_challenge, method) ==
    IF code_challenge = <<>> THEN "invalid_request"
    ELSE IF code_verifier = <<>> THEN "invalid_request"
    ELSE IF ~_PKCE_VERIFIER_RE(code_verifier) THEN "invalid_request"
    ELSE LET m == PkceMethod(method)
         IN  IF m \notin {S256, PLAIN} THEN "invalid_request"
             ELSE LET computed == IF m = S256 THEN _base64url_no_pad(sha256(code_verifier)) ELSE code_verifier
                      cmp == compare_digest(computed, code_challenge)
                  IN  IF cmp = "equal" THEN "ok" ELSE IF cmp = "different" THEN "invalid_grant" ELSE cmp

\* the S256 challenges a client derives from its verifier (RFC 7636, 4.2), as text
ChallengeA ==
    <<90, 116, 78, 80, 117, 110, 72, 52, 57, 70, 68, 51, 53, 70, 87, 89, 104, 84, 53, 84, 118, 56,
      73, 55, 118, 82, 75, 81, 74, 56, 117, 120, 77, 97, 76, 48, 95, 57, 101, 72, 106, 78, 65>>
ChallengeB ==
    <<56, 66, 116, 88, 73, 109, 74, 104, 114, 106, 100, 87, 117, 84, 107, 50, 52, 99, 84, 109, 117,
      69, 110, 53, 112, 98, 67, 84, 80, 54, 79, 53, 71, 69, 79, 95, 81, 90, 87, 53, 50, 87, 81>>
ChallengeLong ==
    <<97, 68, 98, 80, 69, 55, 114, 69, 65, 79, 107, 81, 85, 72, 72, 78, 97, 118, 82, 119, 104, 78,
      45, 115, 114, 85, 53, 101, 77, 67, 121, 85, 118, 45, 48, 107, 52, 66, 79, 118, 116, 122, 52>>

(***************************************************************************)
(* State                                                                   *)
(***************************************************************************)
VARIABLES
    backend,                  \* Settings.STORAGE_BACKEND: "memory", "redis" or "catalyst"
    now,                      \* wall clock, seconds
    registed_clients_store,   \* client_id -> DynamicClientRegistrationRequest
    auth_transactions_store,  \* transaction_id -> AuthorizationTransaction
    auth_codes_store,         \* code -> AuthorizationCode
    nClients,                 \* client ids minted so far
    nTxns,                    \* transaction ids minted so far
    nCsrf,                    \* CSRF tokens minted so far
    session,                  \* request.session["csrf_token"] of the browser; 0 when the key is absent
    tok,                      \* per worker: the /token request it is handling and where it stands
    resp,                     \* the response written last
    issued,                   \* history: the AuthorizationCode stored for each proxy code minted
    approved,                 \* history: transactions for which /consent/approve returned the upstream redirect
    consumed,                 \* history: proxy codes whose upstream exchange returned 200
    failed,                   \* history: proxy codes whose upstream exchange raised (502)
    pk,                       \* validate_pkce applied to free-standing arguments
    rl,                       \* the two token-bucket rate limiters, fed the same calls
    ps,                       \* an InMemoryProvider of its own with the reaper, and what was written to it
    cip,                      \* get_client_ip applied to a request and a configuration
    mw,                       \* one HTTP request on its way through the middleware stack
    dp,                       \* the /token request the grant dispatch is handling
    pr,                       \* one key of both rate limiters, drained and called again within the window
    ex,                       \* the expiry the Redis script asks for, for one capacity and window
    fc,                       \* the limiter registry and the build_rate_limiter calls in progress
    rp,                       \* one ttl_cleanup_task and the lifespan that owns it
    bs,                       \* one request body streamed through the body-size guard
    rc                        \* one operation of the remote cache client

vars == <<backend, now, registed_clients_store, auth_transactions_store, auth_codes_store, nClients, nTxns,
          nCsrf, session, tok, resp, issued, approved, consumed, failed, pk, rl, ps, cip, mw, dp, pr, ex, fc, rp, bs, rc>>
flowVars == <<backend, now, registed_clients_store, auth_transactions_store, auth_codes_store, nClients, nTxns,
              nCsrf, session, tok, resp, issued, approved, consumed, failed>>

Workers == 1..NWorkers
Backends == {"memory", "redis", "catalyst"}
\* the clock advances by a whole TTL or by one second past it
TickSteps == {AUTH_TRANSACTION_TTL_SECONDS, AUTH_TRANSACTION_TTL_SECONDS + 1}

(***************************************************************************)
(* Persistence providers (persistence.py).  A store is                     *)
(*   data  : key -> value, the keys present                                *)
(*   exp   : key -> instant of native expiry (Redis EX, cache expiry)      *)
(*   queue : InMemoryProvider._expiry_queue, <<expiry_time, key>> pairs    *)
(***************************************************************************)
EmptyMap == [k \in {} |-> 0]
EmptyStore == [data |-> EmptyMap, exp |-> EmptyMap, queue |-> <<>>]
Put(f, k, v) == [x \in DOMAIN f \cup {k} |-> IF x = k THEN v ELSE f[x]]
Drop(f, k) == [x \in DOMAIN f \ {k} |-> f[x]]

\* CatalystCacheProvider._sec_to_expiry_hours; 0 stands for None
_sec_to_expiry_hours(ttl_in_sec) ==
    IF ttl_in_sec <= 0 THEN 0
    ELSE LET h == (ttl_in_sec + 3599) \div 3600 IN IF h < 1 THEN 1 ELSE h

\* InMemoryProvider.set
InMemorySet(s, key, value, ttl_in_sec) ==
    [s EXCEPT !.data = Put(s.data, key, value),
              !.queue = IF ttl_in_sec # 0 THEN Append(s.queue, <<now + ttl_in_sec, key>>) ELSE s.queue]
\* RedisProvider.set: SET key value EX ttl
RedisSet_NoEx(s, key, value, ttl_in_sec) == [s EXCEPT !.data = Put(s.data, key, value)]
RedisSet(s, key, value, ttl_in_sec) ==
    [s EXCEPT !.data = Put(s.data, key, value),
              !.exp = IF ttl_in_sec # 0 THEN Put(s.exp, key, now + ttl_in_sec) ELSE Drop(s.exp, key)]
\* CatalystCacheProvider.set: segment.put(key, payload[, expiry_hours])
CatalystSet(s, key, value, ttl_in_sec) ==
    LET expiry_hours == _sec_to_expiry_hours(ttl_in_sec)
    IN  [s EXCEPT !.data = Put(s.data, key, value),
                  !.exp = IF expiry_hours # 0 THEN Put(s.exp, key, now + 3600 * expiry_hours)
                          ELSE Drop(s.exp, key)]
StoreSet(s, key, value, ttl_in_sec) ==
    IF backend = "redis" THEN RedisSet(s, key, value, ttl_in_sec)
    ELSE IF backend = "catalyst" THEN CatalystSet(s, key, value, ttl_in_sec)
    ELSE InMemorySet(s, key, value, ttl_in_sec)

\* get(key) is not None.  InMemoryProvider.get reads _data only; the external servers never
\* return an entry past its native expiry
StoreHas(s, key) ==
    /\ key \in DOMAIN s.data
    /\ (key \in DOMAIN s.exp => now < s.exp[key])
\* get(key), when it is not None
StoreGet(s, key) == s.data[key]
\* delete(key)
StoreDelete_Noop(s, key) == s
StoreDelete(s, key) == [s EXCEPT !.data = Drop(s.data, key), !.exp = Drop(s.exp, key)]

\* InMemoryProvider.cleanup_expired
RECURSIVE cleanup_expired(_)
cleanup_expired(s) ==
    IF Len(s.queue) > 0 /\ s.queue[1][1] <= now
    THEN LET key == s.queue[1][2]
         IN  cleanup_expired([s EXCEPT !.queue = Tail(s.queue),
                                       !.data = IF key \in DOMAIN s.data THEN Drop(s.data, key) ELSE s.data])
    ELSE s

\* expiry inside the Redis / cache server as the clock reaches t
NativeExpire(s, t) ==
    LET dead == {k \in DOMAIN s.exp : s.exp[k] <= t}
    IN  [s EXCEPT !.data = [k \in DOMAIN s.data \ dead |-> s.data[k]],
                  !.exp = [k \in DOMAIN s.exp \ dead |-> s.exp[k]]]

(***************************************************************************)
(* Token-bucket rate limiters (auth/rate_limiter.py)                       *)
(*                                                                         *)
(* Time is counted in ticks, the grain of the call timestamps; the window  *)
(* is WindowTicks ticks long.  Token amounts are kept in units of          *)
(* 1/WindowTicks of a token, so that refill (capacity/window per tick) is  *)
(* the integer `capacity` per tick and one request costs WindowTicks; the  *)
(* arithmetic of the code is carried out exactly.                          *)
(***************************************************************************)
MaxCapacity == 2
WindowTicks == 4
MaxRlTime == 10
RlKeys == {"ip1", "ip2"}
\* entry_ttl_seconds of the in-process limiter: shorter and longer than the window
EntryTtls == {WindowTicks - 2, WindowTicks + 2}

Min(a, b) == IF a < b THEN a ELSE b

\* self._buckets.get(key) is None / the Redis key does not exist
NoBucket == [tokens |-> -1, last_refill |-> -1, last_access |-> -1]
\* _Bucket(tokens, last_refill, last_access)
_Bucket(tokens, last_refill, last_access) ==
    [tokens |-> tokens, last_refill |-> last_refill, last_access |-> last_access]

\* the refill step of allow, leaving the tokens as they were
refill_Never(bucket, t, capacity) ==
    IF t - bucket.last_refill > 0 THEN [bucket EXCEPT !.last_refill = t] ELSE bucket
\* the refill step of allow without the cap at capacity
refill_NoCap(bucket, t, capacity) ==
    IF t - bucket.last_refill > 0
    THEN [bucket EXCEPT !.tokens = bucket.tokens + (t - bucket.last_refill) * capacity, !.last_refill = t]
    ELSE bucket
\* the refill step of allow, filling the bucket whatever time has passed
refill_Full(bucket, t, capacity) ==
    IF t - bucket.last_refill > 0
    THEN [bucket EXCEPT !.tokens = capacity * WindowTicks, !.last_refill = t]
    ELSE bucket
\* the refill step of allow: tokens earned since last_refill, capped at capacity
refill(bucket, t, capacity) ==
    LET delta == t - bucket.last_refill
    IN  IF delta > 0
        THEN [bucket EXCEPT !.tokens = Min(capacity * WindowTicks, bucket.tokens + delta * capacity),
                            !.last_refill = t]
        ELSE bucket

\* InMemoryTokenBucket.allow with the denied path also stamping last_access
allow_TouchOnDeny(bucket, t, capacity, entry_ttl_seconds) ==
    IF bucket = NoBucket \/ t - bucket.last_access > entry_ttl_seconds
    THEN [bucket |-> _Bucket((capacity - 1) * WindowTicks, t, t), allowed |-> TRUE, fresh |-> TRUE]
    ELSE LET refilled == refill(bucket, t, capacity)
         IN  IF refilled.tokens < WindowTicks
             THEN [bucket |-> [refilled EXCEPT !.last_access = t], allowed |-> FALSE, fresh |-> FALSE]
             ELSE [bucket |-> [refilled EXCEPT !.last_access = t, !.tokens = refilled.tokens - WindowTicks],
                   allowed |-> TRUE, fresh |-> FALSE]
\* InMemoryTokenBucket.allow with the stale test taken at entry_ttl_seconds itself
allow_StaleAtTtl(bucket, t, capacity, entry_ttl_seconds) ==
    IF bucket = NoBucket \/ t - bucket.last_access >= entry_ttl_seconds
    THEN [bucket |-> _Bucket((capacity - 1) * WindowTicks, t, t), allowed |-> TRUE, fresh |-> TRUE]
    ELSE LET refilled == refill(bucket, t, capacity)
         IN  IF refilled.tokens < WindowTicks
             THEN [bucket |-> refilled, allowed |-> FALSE, fresh |-> FALSE]
             ELSE [bucket |-> [refilled EXCEPT !.last_access = t, !.tokens = refilled.tokens - WindowTicks],
                   allowed |-> TRUE, fresh |-> FALSE]
\* InMemoryTokenBucket.allow(key) at time t: the bucket it leaves and the decision
allow(bucket, t, capacity, entry_ttl_seconds) ==
    IF bucket = NoBucket
    THEN [bucket |-> _Bucket((capacity - 1) * WindowTicks, t, t), allowed |-> TRUE, fresh |-> TRUE]
    ELSE IF t - bucket.last_access > entry_ttl_seconds
    THEN [bucket |-> _Bucket((capacity - 1) * WindowTicks, t, t), allowed |-> TRUE, fresh |-> TRUE]
    ELSE LET refilled == refill(bucket, t, capacity)
         IN  IF refilled.tokens < WindowTicks
             THEN [bucket |-> refilled, allowed |-> FALSE, fresh |-> FALSE]
             ELSE [bucket |-> [refilled EXCEPT !.last_access = t, !.tokens = refilled.tokens - WindowTicks],
                   allowed |-> TRUE, fresh |-> FALSE]

\* InMemoryTokenBucket.cleanup(): the keys it deletes
cleanup(buckets, t, entry_ttl_seconds) ==
    {k \in RlKeys : buckets[k] # NoBucket /\ t - buckets[k].last_access > entry_ttl_seconds}

\* the Redis hash of a key: tokens, last_refill, and the instant PEXPIRE set for its removal
RedisBucket(tokens, last_refill, expire_at) ==
    [tokens |-> tokens, last_refill |-> last_refill, expire_at |-> expire_at]
NoRedisBucket == [tokens |-> -1, last_refill |-> -1, expire_at |-> -1]
\* HMGET on a key: nothing once the key's expiry has passed
RedisHash(h, t) == IF h = NoRedisBucket \/ t > h.expire_at THEN NoRedisBucket ELSE h
\* TOKEN_BUCKET_SCRIPT without the refill of an existing bucket
TOKEN_BUCKET_SCRIPT_NoRefill(h, t, capacity, requested) ==
    LET cur == RedisHash(h, t)
        tokens == IF cur = NoRedisBucket THEN capacity * WindowTicks ELSE cur.tokens
        allowed == tokens >= requested * WindowTicks
    IN  [bucket |-> RedisBucket(IF allowed THEN tokens - requested * WindowTicks ELSE tokens, t, t + WindowTicks),
         allowed |-> allowed]
\* TOKEN_BUCKET_SCRIPT taking one token from the bucket whatever was requested
TOKEN_BUCKET_SCRIPT_TakeOne(h, t, capacity, requested) ==
    LET cur == RedisHash(h, t)
        tokens == IF cur = NoRedisBucket
                  THEN capacity * WindowTicks
                  ELSE Min(capacity * WindowTicks, cur.tokens + (t - cur.last_refill) * capacity)
        allowed == tokens >= requested * WindowTicks
    IN  [bucket |-> RedisBucket(IF allowed THEN tokens - WindowTicks ELSE tokens, t, t + WindowTicks),
         allowed |-> allowed]
\* TOKEN_BUCKET_SCRIPT for `requested` tokens at Redis time t: the hash it leaves and the decision
TOKEN_BUCKET_SCRIPT(h, t, capacity, requested) ==
    LET cur == RedisHash(h, t)
        tokens == IF cur = NoRedisBucket
                  THEN capacity * WindowTicks
                  ELSE Min(capacity * WindowTicks, cur.tokens + (t - cur.last_refill) * capacity)
        allowed == tokens >= requested * WindowTicks
    IN  [bucket |-> RedisBucket(IF allowed THEN tokens - requested * WindowTicks ELSE tokens, t, t + WindowTicks),
         allowed |-> allowed]

\* what is remembered of the calls made for a key: the call that created the bucket, the calls
\* since, the last admitted call, and the last denied call
NoCalls == [first |-> -1, n |-> 0, called_at |-> -1, admitted_at |-> -1, denied_at |-> -1]
\* the last operation on the limiters: an allow (both decisions) or a cleanup (what it removed)
NoCall == [op |-> "none", key |-> "", at |-> -1, mem |-> FALSE, redis |-> FALSE, n |-> 0, first |-> -1,
           prev_at |-> -1, access_before |-> -1, access_after |-> -1, had |-> {}, removed |-> {},
           count |-> 0, requested |-> 0]
RlConfig(capacity, entry_ttl_seconds) ==
    [capacity |-> capacity, entry_ttl_seconds |-> entry_ttl_seconds, t |-> 0,
     buckets |-> [k \in RlKeys |-> NoBucket], redis |-> [k \in RlKeys |-> NoRedisBucket],
     calls |-> [k \in RlKeys |-> NoCalls], last |-> NoCall]
RlIdle == RlConfig(1, WindowTicks + 2)

\* one key of both limiters, called until it is denied at one instant and again d ticks later:
\* exhausted_at is the instant at which it was denied after `capacity` admissions (-1 before),
\* admitted and denied count the decisions of each backend at the current instant
MaxRefillCapacity == 4
NoDecisions == [mem |-> 0, redis |-> 0]
PrConfig(capacity, entry_ttl_seconds, t) ==
    [capacity |-> capacity, entry_ttl_seconds |-> entry_ttl_seconds, t |-> t, bucket |-> NoBucket,
     hash |-> NoRedisBucket, exhausted_at |-> -1, admitted |-> NoDecisions, denied |-> NoDecisions]
PrIdle == PrConfig(1, WindowTicks + 2, 0)

(***************************************************************************)
(* An InMemoryProvider with its ttl_cleanup_task, written to and read      *)
(* directly                                                                *)
(***************************************************************************)
REAPER_PERIOD == 60
ShortTtl == 30
ProbeStep == 15
MaxWrites == 2
ProbeKeys == {"a", "b"}
ProbeTtls == {ShortTtl, AUTH_TRANSACTION_TTL_SECONDS}
\* the last write to a key: set(key, value, ttl) or delete(key), and when
NoWrite == [op |-> "none", at |-> 0, ttl |-> 0, value |-> 0]
\* the last get: the key, when, whether a value came back and which, and what the last write
\* to the key had been
NoGet == [op |-> "none", key |-> "", at |-> 0, hit |-> FALSE, value |-> 0, last |-> NoWrite]
PsIdle == [store |-> EmptyStore, written |-> [k \in ProbeKeys |-> NoWrite], got |-> NoGet,
           next_reap |-> 0, nWrites |-> 0]

(***************************************************************************)
(* Client address (auth/rate_limiter.py, get_client_ip)                    *)
(*                                                                         *)
(* Addresses and networks are the literals below; Contained is the table   *)
(* of `ip_address(ip) in ip_network(net)` for them.  A string that is not  *)
(* an address makes ip_address raise ValueError.                           *)
(***************************************************************************)
ProxyAddress == "10.0.0.1"
InnerProxyAddress == "10.0.0.2"
ClientAddress == "203.0.113.9"
OtherAddress == "198.51.100.7"
NotAnAddress == "unknown"
ProxyNetwork == "10.0.0.0/8"
ValidAddresses == {ProxyAddress, InnerProxyAddress, ClientAddress, OtherAddress}
Contained(ip, net) == net = ProxyNetwork /\ ip \in {ProxyAddress, InnerProxyAddress}

\* class Settings as config.py declares it has neither BEHIND_PROXY nor TRUSTED_PROXY_LIST:
\* `declared` is FALSE for it, and TRUE for a Settings to which a deployment has assigned both
SettingsAsDeclared == [declared |-> FALSE, BEHIND_PROXY |-> FALSE, TRUSTED_PROXY_LIST |-> {}]
ProxySettings(behind, nets) == [declared |-> TRUE, BEHIND_PROXY |-> behind, TRUSTED_PROXY_LIST |-> nets]

\* get_client_ip._is_trusted_proxy with every address trusted
_is_trusted_proxy_All(settings, ip) == TRUE
\* get_client_ip._is_trusted_proxy
_is_trusted_proxy(settings, ip) ==
    /\ ip \in ValidAddresses
    /\ \E net \in settings.TRUSTED_PROXY_LIST : Contained(ip, net)

\* the forwarded addresses walked from the left: the leftmost that is not trusted
FirstUntrusted_Leftmost(settings, ips) ==
    IF \A i \in 1..Len(ips) : _is_trusted_proxy(settings, ips[i]) THEN <<>>
    ELSE <<ips[CHOOSE i \in 1..Len(ips) :
                   /\ ~_is_trusted_proxy(settings, ips[i])
                   /\ \A j \in 1..(i - 1) : _is_trusted_proxy(settings, ips[j])]>>
\* the forwarded addresses, rightmost first, up to and including the first that is not trusted
RECURSIVE FirstUntrusted(_, _)
FirstUntrusted(settings, ips) ==
    IF ips = <<>> THEN <<>>
    ELSE IF ~_is_trusted_proxy(settings, ips[Len(ips)]) THEN <<ips[Len(ips)]>>
    ELSE FirstUntrusted(settings, SubSeq(ips, 1, Len(ips) - 1))

\* get_client_ip(request): connecting_ip is request.client.host ("" when there is no client),
\* xff the X-Forwarded-For header split at commas and stripped (<<>> when absent or empty),
\* x_real_ip the X-Real-IP header ("" when absent or empty)
get_client_ip(settings, connecting_ip, xff, x_real_ip) ==
    IF connecting_ip = "" THEN "None"
    ELSE IF ~settings.declared THEN "AttributeError"
    ELSE IF ~settings.BEHIND_PROXY THEN connecting_ip
    ELSE IF ~_is_trusted_proxy(settings, connecting_ip) THEN connecting_ip
    ELSE IF xff # <<>> /\ FirstUntrusted(settings, xff) # <<>> THEN FirstUntrusted(settings, xff)[1]
    ELSE IF x_real_ip # "" THEN x_real_ip
    ELSE connecting_ip

CipIdle == [settings |-> SettingsAsDeclared, connecting_ip |-> "", xff |-> <<>>, x_real_ip |-> "",
            result |-> "unused"]

(***************************************************************************)
(* The HTTP front-end (http_server.py): one request passes through the     *)
(* middlewares and reaches the router                                      *)
(***************************************************************************)
\* the middlewares in the order of the app.add_middleware calls
Registered == <<"MaxBodySizeMiddleware", "AuthMiddleware", "SessionMiddleware">>
\* Starlette's add_middleware puts each middleware in front of those added before it: the one
\* added last is the outermost
RECURSIVE Reverse(_)
Reverse(s) == IF s = <<>> THEN <<>> ELSE Append(Reverse(Tail(s)), Head(s))
MiddlewareStack == Reverse(Registered) \o <<"router">>

\* MaxBodySizeMiddleware(max_body_size = 1 * 1024 * 1024)
max_body_size == 1048576

\* characters of a Content-Length header, as code points
Digits == 48..57
\* str.strip(): leading and trailing blanks removed
RECURSIVE LStrip(_)
LStrip(s) == IF s # <<>> /\ Head(s) = 32 THEN LStrip(Tail(s)) ELSE s
Strip(s) == Reverse(LStrip(Reverse(LStrip(s))))
\* the digits of a literal, underscores between digits dropped; <<>> when it is not a literal
Literal(s) ==
    IF /\ s # <<>>
       /\ \A i \in 1..Len(s) : s[i] \in Digits \/ s[i] = 95
       /\ s[1] # 95 /\ s[Len(s)] # 95
       /\ \A i \in 1..(Len(s) - 1) : ~(s[i] = 95 /\ s[i + 1] = 95)
    THEN SelectSeq(s, LAMBDA c : c \in Digits)
    ELSE <<>>
RECURSIVE Decimal(_)
Decimal(d) == IF d = <<>> THEN 0 ELSE 10 * Decimal(SubSeq(d, 1, Len(d) - 1)) + (d[Len(d)] - 48)
\* int(content_length): [ok |-> FALSE] stands for ValueError
int(text) ==
    LET s == Strip(text)
        signed == s # <<>> /\ s[1] \in {43, 45}
        d == Literal(IF signed THEN Tail(s) ELSE s)
    IN  IF d = <<>> THEN [ok |-> FALSE, value |-> 0]
        ELSE [ok |-> TRUE, value |-> IF signed /\ s[1] = 45 THEN 0 - Decimal(d) ELSE Decimal(d)]

\* MaxBodySizeMiddleware.__call__ up to the call of the wrapped app, rejecting at the limit too
ContentLengthVerdict_AtLimit(content_length) ==
    IF content_length.present
    THEN IF ~int(content_length.text).ok THEN [status |-> 400, detail |-> "Invalid Content-Length"]
         ELSE IF int(content_length.text).value >= max_body_size
         THEN [status |-> 413, detail |-> "Content-Length too large"]
         ELSE [status |-> 0, detail |-> ""]
    ELSE [status |-> 0, detail |-> ""]
\* MaxBodySizeMiddleware.__call__ up to the call of the wrapped app: the rejection, or status 0
\* when the request is passed on
ContentLengthVerdict(content_length) ==
    IF content_length.present
    THEN IF ~int(content_length.text).ok THEN [status |-> 400, detail |-> "Invalid Content-Length"]
         ELSE IF int(content_length.text).value > max_body_size
         THEN [status |-> 413, detail |-> "Content-Length too large"]
         ELSE [status |-> 0, detail |-> ""]
    ELSE [status |-> 0, detail |-> ""]

\* a path is the sequence of its segments: "/" is <<"">>, "/consent/approve" is
\* <<"consent", "approve">>, "/static/" is <<"static", "">>
UNAUTHENTICATED_PATHS ==
    {<<"register">>, <<"authorize">>, <<"consent">>, <<"consent", "approve">>, <<"consent", "deny">>,
     <<"auth", "callback">>, <<"token">>, <<"favicon.ico">>, <<"">>}
\* "/.well-known/" and "/static/", without the closing slash
UNAUTHENTICATED_PREFIXES == {<<".well-known">>, <<"static">>}
\* path.startswith(prefix + "/"): the segments of the prefix, and at least one more
startswith(path, prefixes) ==
    \E prefix \in prefixes : Len(path) > Len(prefix) /\ SubSeq(path, 1, Len(prefix)) = prefix
RequestPaths ==
    {<<"">>, <<"token">>, <<"consent", "approve">>, <<".well-known", "oauth-protected-resource">>,
     <<"static", "app.css">>, <<"mcp">>, <<"tokens">>, <<".well-known">>, <<"token", "">>}
\* path in UNAUTHENTICATED_PATHS or path.startswith(UNAUTHENTICATED_PREFIXES)
Exempt(path) == path \in UNAUTHENTICATED_PATHS \/ startswith(path, UNAUTHENTICATED_PREFIXES)

\* str.lower() on the schemes sent
lower(scheme) ==
    IF scheme \in {"Bearer", "BEARER", "bearer"} THEN "bearer"
    ELSE IF scheme \in {"Basic", "basic"} THEN "basic" ELSE scheme

\* AuthMiddleware._unauthorized_response: the 401, or the AttributeError of None.rstrip when
\* MCP_SERVER_PUBLIC_URL is not set (only NameError is caught)
_unauthorized_response(public_url, detail, error) ==
    IF public_url = "None"
    THEN [status |-> 500, error |-> "AttributeError", detail |-> "", www_authenticate |-> ""]
    ELSE [status |-> 401, error |-> error, detail |-> detail,
          www_authenticate |-> "Bearer realm=OAuth, resource_metadata=.well-known/oauth-protected-resource"]

NoResponse == [status |-> 0, error |-> "", detail |-> "", www_authenticate |-> ""]
\* AuthMiddleware.dispatch past the exempt paths, calling the handler whatever the probe did
dispatch_IgnoreProbe(public_url, authorization, probe) ==
    IF authorization = <<>>
    THEN [response |-> _unauthorized_response(public_url, "Missing Authorization header", "unauthorized"),
          probes |-> 0]
    ELSE IF Len(authorization) # 2
    THEN [response |-> _unauthorized_response(public_url, "Invalid Authorization header format", "invalid_token"),
          probes |-> 0]
    ELSE IF lower(authorization[1]) # "bearer"
    THEN [response |-> _unauthorized_response(public_url, "Authorization scheme must be Bearer", "unauthorized"),
          probes |-> 0]
    ELSE [response |-> NoResponse, probes |-> 1]
\* AuthMiddleware.dispatch past the exempt paths: authorization is the header split at
\* whitespace (<<>> when absent or empty), probe what get_owned_workspaces does when called;
\* the response, or NoResponse when call_next is reached, and the number of probes made
dispatch(public_url, authorization, probe) ==
    IF authorization = <<>>
    THEN [response |-> _unauthorized_response(public_url, "Missing Authorization header", "unauthorized"),
          probes |-> 0]
    ELSE IF Len(authorization) # 2
    THEN [response |-> _unauthorized_response(public_url, "Invalid Authorization header format", "invalid_token"),
          probes |-> 0]
    ELSE IF lower(authorization[1]) # "bearer"
    THEN [response |-> _unauthorized_response(public_url, "Authorization scheme must be Bearer", "unauthorized"),
          probes |-> 0]
    ELSE IF probe = "ValueError"
    THEN [response |-> _unauthorized_response(public_url, "Invalid Authorization header format", "invalid_token"),
          probes |-> 1]
    ELSE IF probe # "ok"
    THEN [response |-> _unauthorized_response(public_url, "Invalid or expired token", "invalid_token"),
          probes |-> 1]
    ELSE [response |-> NoResponse, probes |-> 1]

\* a request before it enters the stack
MwRequest(public_url, path, content_length, authorization, probe) ==
    [public_url |-> public_url, path |-> path, content_length |-> content_length,
     authorization |-> authorization, probe |-> probe,
     rest |-> MiddlewareStack, ran |-> <<>>, probes |-> 0, passed |-> {}, response |-> NoResponse]
MwIdle ==
    MwRequest("None", <<"">>, [present |-> FALSE, text |-> <<>>], <<>>, "ok")

(***************************************************************************)
(* The expiry of a Redis bucket in milliseconds.  refill_rate is           *)
(* capacity / (window_seconds * 1000) and the script asks PEXPIRE for      *)
(* math.ceil(capacity / refill_rate); both quotients are IEEE-754 doubles, *)
(* in Python and in Lua.  The values below are that expression evaluated   *)
(* in doubles: row capacity, column the window of ExpiryWindows.           *)
(***************************************************************************)
ExpiryWindows == <<1, 5, 10, 15, 30, 57, 60, 90, 120, 300, 600, 3600>>
CeilCapacityOverRate ==
    << <<1000, 5000, 10000, 15000, 30000, 57001, 60000, 90000, 120000, 300000, 600000, 3600001>>,
       <<1000, 5000, 10000, 15000, 30000, 57001, 60000, 90000, 120000, 300000, 600000, 3600001>>,
       <<1000, 5000, 10000, 15000, 30000, 57000, 60000, 90000, 120000, 300000, 600000, 3600000>>,
       <<1000, 5000, 10000, 15000, 30000, 57001, 60000, 90000, 120000, 300000, 600000, 3600001>>,
       <<1000, 5000, 10000, 15000, 30000, 57001, 60000, 90000, 120000, 300000, 600000, 3600000>> >>
ExpiryCapacities == 1..Len(CeilCapacityOverRate)
\* local ttl = math.ceil(capacity / refill_rate)
pexpire_ttl(capacity, window_seconds) ==
    LET column == CHOOSE i \in 1..Len(ExpiryWindows) : ExpiryWindows[i] = window_seconds
    IN  CeilCapacityOverRate[capacity][column]
\* a limiter of the given capacity and window whose script has not run
ExConfig(capacity, window_seconds) == [capacity |-> capacity, window_seconds |-> window_seconds, ttl |-> -1]
ExIdle == ExConfig(1, 1)


(***************************************************************************)
(* The limiter factory (auth/rate_limiter.py, build_rate_limiter) and the  *)
(* Redis client it asks for (sdk/redis_client.py).  The calls are tasks of *)
(* one event loop: a task runs alone up to its next suspension, which is   *)
(* the wait for _rate_limiter_lock when it is held and the ping of a new   *)
(* Redis client.  A limiter instance is the number it was constructed as.  *)
(***************************************************************************)
NTasks == 3
MaxBuilds == 4
Tasks == 1..NTasks
\* (capacity, window_seconds) pairs the callers ask for
LimiterKeys == {<<5, 60>>, <<10, 60>>}
\* if key in _rate_limiter_cache, inside the lock, skipped
second_check_Skip(cache, key) == FALSE
\* if key in _rate_limiter_cache
second_check(cache, key) == cache[key] # 0
NoTask == [pc |-> "idle", key |-> <<0, 0>>, ret |-> 0]
FcIdle ==
    [cache |-> [k \in LimiterKeys |-> 0], lock |-> 0, client |-> "none", task |-> [t \in Tasks |-> NoTask],
     constructed |-> [k \in LimiterKeys |-> 0], instances |-> 0, builds |-> 0]
\* the task leaves build_rate_limiter with a limiter, or with the exception of the ping (-1)
Returned(f, t, limiter) == [f EXCEPT !.task[t].pc = "done", !.task[t].ret = limiter]
\* limiter = ...(capacity, window_seconds); _rate_limiter_cache[key] = limiter; return limiter,
\* the lock released on the way out
ConstructAndRegister(f, t) ==
    LET key == f.task[t].key
        limiter == f.instances + 1
    IN  Returned([f EXCEPT !.instances = limiter, !.constructed[key] = f.constructed[key] + 1,
                           !.cache[key] = limiter, !.lock = 0], t, limiter)
\* the body of `async with _rate_limiter_lock`, from the moment the task holds the lock up to
\* its suspension in RedisClientSingleton.get_client or its return
Locked(f, t, redis) ==
    LET key == f.task[t].key
        held == [f EXCEPT !.lock = t]
    IN  IF second_check(f.cache, key) THEN Returned([held EXCEPT !.lock = 0], t, f.cache[key])
        ELSE IF redis /\ f.client = "none"
        THEN [held EXCEPT !.client = "created", !.task[t].pc = "ping"]
        ELSE ConstructAndRegister(held, t)

(***************************************************************************)
(* The background cleanup tasks and the lifespan that owns them            *)
(* (persistence.py, ttl_cleanup_task; http_server.py, lifespan;            *)
(* auth/rate_limiter.py, rate_limiter_cleanup_task).  A task stands at     *)
(*   "none"        not created                                             *)
(*   "tick"        about to run its cleanup                                *)
(*   "sleep"       in asyncio.sleep                                        *)
(*   "terminated"  its coroutine has ended; cause says how                 *)
(***************************************************************************)
MaxRuns == 2
BackgroundTasks == <<"registered_clients", "auth_transactions", "auth_codes", "rate_limiter">>
NoBackgroundTask == [pc |-> "none", last |-> "", cancel |-> FALSE, cause |-> "", runs |-> 0]
RpIdle ==
    [phase |-> "startup", task |-> [s \in {BackgroundTasks[i] : i \in 1..Len(BackgroundTasks)} |-> NoBackgroundTask],
     background_tasks |-> <<>>, next |-> 1]
\* where ttl_cleanup_task stands after provider.cleanup_expired(), were the exception let through
after_cleanup_Propagate(raised) == IF raised THEN "terminated" ELSE "sleep"
\* where ttl_cleanup_task stands after provider.cleanup_expired(): `except Exception` keeps the
\* loop going
after_cleanup(raised) == "sleep"
\* the tasks lifespan creates: a reaper per store when the stores are InMemoryProviders, and a
\* cleanup task for the global limiter when it is an InMemoryTokenBucket
Created(storage_backend) ==
    (IF storage_backend = "memory" THEN <<"registered_clients", "auth_transactions", "auth_codes">> ELSE <<>>)
    \o (IF storage_backend # "redis" THEN <<"rate_limiter">> ELSE <<>>)

(***************************************************************************)
(* MaxBodySizeMiddleware, the streamed body (utils/security.py).  The      *)
(* declared Content-Length, if any, has passed; the wrapped application    *)
(* reads the body through limited_receive and answers through              *)
(* tracking_send, and lets BodyTooLargeException pass to the middleware.   *)
(***************************************************************************)
MaxChunks == 3
ChunkSizes == {0, 1, max_body_size \div 2, max_body_size - 1, max_body_size}
BsIdle ==
    [phase |-> "app", total_received |-> 0, delivered |-> 0, chunks |-> 0, more_body |-> TRUE,
     response_started |-> FALSE, overflow |-> FALSE, sent |-> <<>>]
\* limited_receive: the test of the chunk alone
too_large_ChunkOnly(total_received, chunk) == chunk > max_body_size
\* limited_receive: `if total_received > self.max_body_size`, total_received counting the chunk
too_large(total_received, chunk) == total_received > max_body_size
\* `except BodyTooLargeException`: re-raise once the response has started, reject with 413 if not
on_overflow(b) ==
    IF b.response_started
    THEN [b EXCEPT !.phase = "raised", !.overflow = TRUE]
    ELSE [b EXCEPT !.phase = "done", !.overflow = TRUE, !.sent = Append(b.sent, 413)]

(***************************************************************************)
(* Remote cache client (CatalystClient.py, CatalystCache).  A response is  *)
(* a status code and a body; the body is kept as what json.loads and the   *)
(* lookups of the client make of it.  A request that ends in               *)
(* requests.RequestException has status 0.                                 *)
(***************************************************************************)
CacheOperations == {"insert", "get", "update", "delete"}
CacheBodies == {"data", "AUTHENTICATION_FAILURE", "OTHER_ERROR", "not json"}
CacheResponses ==
    [status : {200, 401, 500}, body : CacheBodies] \cup {[status |-> 0, body |-> "RequestException"]}
OAuthBodies == {"access_token", "error", "not json"}
OAuthResponses == [status : {200, 400}, body : OAuthBodies] \cup {[status |-> 0, body |-> "RequestException"]}
NoCacheResponse == [status |-> -1, body |-> ""]
RcIdle ==
    [pc |-> "idle", op |-> "", submissions |-> 0, refreshes |-> 0, first |-> NoCacheResponse,
     refresh |-> NoCacheResponse, second |-> NoCacheResponse, result |-> "", access_token |-> 0]
\* str(resp_obj.status_code).startswith('2')
startswith_2(status_code) == status_code >= 200 /\ status_code < 300
\* CatalystCache.is_oauth_expired
is_oauth_expired(resp_obj) == resp_obj.body = "AUTHENTICATION_FAILURE"
\* CatalystCache.regenerate_analytics_oauth_token: "ok", or the exception it raises
regenerate_analytics_oauth_token(oauth_resp_obj) ==
    IF oauth_resp_obj.status = 0 THEN "ServerError"
    ELSE IF oauth_resp_obj.status = 200
         THEN IF oauth_resp_obj.body = "not json" THEN "JSONDecodeError"
              ELSE IF oauth_resp_obj.body = "access_token" THEN "ok"
              ELSE "ServerError"
         ELSE "ServerError"
\* _execute_with_retry with every failure retried
should_retry_Any(resp_obj) == ~startswith_2(resp_obj.status)
\* _execute_with_retry: `if not str(resp_obj.status_code).startswith('2') and
\* self.is_oauth_expired(resp_obj)`
should_retry(resp_obj) == ~startswith_2(resp_obj.status) /\ is_oauth_expired(resp_obj)
\* insert/get/update/delete after _execute_with_retry: the parsed body, or the exception raised
cache_result(resp_obj) ==
    IF resp_obj.status = 0 THEN "ServerError"
    ELSE IF startswith_2(resp_obj.status)
         THEN IF resp_obj.body = "not json" THEN "JSONDecodeError" ELSE "returned"
         ELSE "ServerError"

(***************************************************************************)
(* Requests the parties of the model send                                  *)
(***************************************************************************)
RegisterRedirectUris == {<<"https://c/cb">>}
RedirectUris == {"https://c/cb", "https://x/cb"}
DownstreamStates == {"xyz"}
\* <<code_challenge, code_challenge_method>> of an authorization request
AuthorizePkce == {<< <<>>, <<>> >>, <<ChallengeA, S256>>}
UpstreamCodes == {"UA"}
Locations == {NoneVal, "us"}
TokenVerifiers == {<<>>, VerifierA, VerifierB}
\* <<client_id, client_secret>>: the secret registered for the client, or a wrong one (0)
Credentials == UNION {{<<c, 0>>, <<c, c>>} : c \in 1..MaxClients}
TokenRequests ==
    {[grant_type |-> "authorization_code", code |-> k, client_id |-> cr[1], client_secret |-> cr[2],
      refresh_token |-> "", code_verifier |-> v] : k \in 0..MaxCodes, cr \in Credentials, v \in TokenVerifiers}
    \cup
    {[grant_type |-> g, code |-> 0, client_id |-> cr[1], client_secret |-> cr[2],
      refresh_token |-> r, code_verifier |-> <<>>] :
         g \in {"refresh_token", "password"}, cr \in Credentials, r \in {"", "RT"}}
NoRequest ==
    [grant_type |-> "", code |-> 0, client_id |-> 0, client_secret |-> 0, refresh_token |-> "",
     code_verifier |-> <<>>]

IdleTok == [pc |-> "idle", grant_type |-> "", code |-> 0, client_id |-> 0, verifier |-> FALSE,
            late |-> FALSE, retry |-> FALSE]

\* a response: endpoint, status, error detail (or what a success carries), the key the request
\* named (client, transaction or proxy code), the identifier it minted, and what was true of the
\* request when it arrived
Resp(ep, status, detail, key, out) ==
    [ep |-> ep, status |-> status, detail |-> detail, key |-> key, out |-> out,
     entry |-> "", location |-> "", client_id |-> 0, authentic |-> FALSE, verifier |-> FALSE,
     late |-> FALSE, retry |-> FALSE]
NoResp == Resp("", 0, "", 0, 0)

\* what an observer of the store would call the entry: it cannot be read, it can be read but
\* is past its expires_at, or it can be read and is current
Readable(s, k) == k \in DOMAIN s.data /\ (k \in DOMAIN s.exp => now < s.exp[k])
EntryStatus(s, k) ==
    IF ~Readable(s, k) THEN "absent" ELSE IF s.data[k].expires_at < now THEN "expired" ELSE "live"

(***************************************************************************)
(* Scheduling.  With the in-memory backend there is one process and one    *)
(* event loop: a handler runs without interleaving up to its next await,   *)
(* and /token awaits only the upstream exchange.  With Redis or the remote *)
(* cache the workers are separate processes that interleave at every       *)
(* store operation.  resp holds a response from the step that writes it    *)
(* until it has left the server (respond); the next step starts after      *)
(* that, so that resp always is the response of the step last taken.       *)
(***************************************************************************)
SyncPcs == {"delete", "expire"}
CanStep(w) ==
    /\ resp = NoResp
    /\ backend = "memory" => \A v \in Workers \ {w} : tok[v].pc \notin SyncPcs
HandlerFree ==
    /\ resp = NoResp
    /\ backend = "memory" => \A v \in Workers : tok[v].pc \notin SyncPcs
respond ==
    /\ resp # NoResp
    /\ resp' = NoResp
    /\ UNCHANGED <<backend, now, registed_clients_store, auth_transactions_store, auth_codes_store, nClients,
                   nTxns, nCsrf, session, tok, issued, approved, consumed, failed, pk, rl, ps, cip, mw, dp, pr, ex, fc, rp, bs, rc>>

(***************************************************************************)
(* POST /register                                                          *)
(***************************************************************************)
register_client(redirect_uris) ==
    /\ HandlerFree
    /\ nClients < MaxClients
    /\ LET client_id == nClients + 1
           client_secret == nClients + 1
       IN  /\ registed_clients_store' =
                  StoreSet(registed_clients_store, client_id,
                           [redirect_uris |-> redirect_uris, secret |-> client_secret], CLIENT_TTL_SECONDS)
           /\ nClients' = client_id
           /\ resp' = Resp("/register", 200, "", 0, client_id)
    /\ UNCHANGED <<backend, now, auth_transactions_store, auth_codes_store, nTxns, nCsrf, session, tok,
                   issued, approved, consumed, failed, pk, rl, ps, cip, mw, dp, pr, ex, fc, rp, bs, rc>>

(***************************************************************************)
(* GET /authorize                                                          *)
(***************************************************************************)
Contains(seq, x) == \E i \in 1..Len(seq) : seq[i] = x
\* pydantic AnyUrl accepts the string: it has a scheme
UrlsWithScheme == {"https://c/cb", "https://x/cb"}
AnyUrlValid(url) == url \in UrlsWithScheme
\* how an authorization request stands when it arrives
AuthorizeStanding(client_id, redirect_uri) ==
    IF client_id \notin DOMAIN registed_clients_store.data THEN "unknown_client"
    ELSE IF \A i \in DOMAIN registed_clients_store.data[client_id].redirect_uris :
                registed_clients_store.data[client_id].redirect_uris[i] # redirect_uri
    THEN "unregistered_redirect_uri"
    ELSE "registered"
authorize(client_id, redirect_uri, state, code_challenge, code_challenge_method) ==
    LET reply(status, detail, out) ==
            [Resp("/authorize", status, detail, client_id, out)
                EXCEPT !.entry = AuthorizeStanding(client_id, redirect_uri)]
    IN
    /\ HandlerFree
    /\ IF ~StoreHas(registed_clients_store, client_id)
       THEN /\ resp' = reply(401, "invalid_token.html", 0)
            /\ UNCHANGED <<auth_transactions_store, nTxns>>
       ELSE IF ~Contains(StoreGet(registed_clients_store, client_id).redirect_uris, redirect_uri)
       THEN /\ resp' = reply(400, "invalid_redirect_uri", 0)
            /\ UNCHANGED <<auth_transactions_store, nTxns>>
       ELSE IF ~AnyUrlValid(redirect_uri)
       THEN \* AuthorizationTransaction(redirect_uri=...): pydantic ValidationError, unhandled: 500
            /\ resp' = reply(500, "ValidationError", 0)
            /\ UNCHANGED <<auth_transactions_store, nTxns>>
       ELSE /\ nTxns < MaxTxns
            /\ LET transaction_id == nTxns + 1
               IN  /\ auth_transactions_store' =
                          StoreSet(auth_transactions_store, transaction_id,
                                   [expires_at |-> now + AUTH_TRANSACTION_TTL_SECONDS,
                                    client_id |-> client_id,
                                    redirect_uri |-> redirect_uri,
                                    state |-> state,
                                    code_challenge |-> code_challenge,
                                    code_challenge_method |-> code_challenge_method],
                                   AUTH_TRANSACTION_TTL_SECONDS)
                   /\ nTxns' = transaction_id
                   /\ resp' = reply(302, "/consent", transaction_id)
    /\ UNCHANGED <<backend, now, registed_clients_store, auth_codes_store, nClients, nCsrf, session, tok,
                   issued, approved, consumed, failed, pk, rl, ps, cip, mw, dp, pr, ex, fc, rp, bs, rc>>

(***************************************************************************)
(* GET /consent                                                            *)
(***************************************************************************)
\* ensure_aware_utc(txn.expires_at) < datetime.now(timezone.utc)
TransactionExpired_Never(txn) == FALSE
TransactionExpired(txn) == txn.expires_at < now
consent(transaction_id) ==
    LET entry == EntryStatus(auth_transactions_store, transaction_id)
        reply(status, detail, out) == [Resp("/consent", status, detail, transaction_id, out) EXCEPT !.entry = entry]
    IN
    /\ HandlerFree
    /\ IF ~StoreHas(auth_transactions_store, transaction_id)
       THEN /\ resp' = reply(400, "invalid_transaction", 0)
            /\ UNCHANGED <<auth_transactions_store, nCsrf, session>>
       ELSE IF TransactionExpired(StoreGet(auth_transactions_store, transaction_id))
       THEN /\ auth_transactions_store' = StoreDelete(auth_transactions_store, transaction_id)
            /\ resp' = reply(400, "transaction_expired", 0)
            /\ UNCHANGED <<nCsrf, session>>
       ELSE \* generate_csrf_token
            /\ session = 0 => nCsrf < MaxCsrf
            /\ session' = IF session = 0 THEN nCsrf + 1 ELSE session
            /\ nCsrf' = IF session = 0 THEN nCsrf + 1 ELSE nCsrf
            /\ resp' = reply(200, "consent.html", session')
            /\ UNCHANGED auth_transactions_store
    /\ UNCHANGED <<backend, now, registed_clients_store, auth_codes_store, nClients, nTxns, tok,
                   issued, approved, consumed, failed, pk, rl, ps, cip, mw, dp, pr, ex, fc, rp, bs, rc>>

(***************************************************************************)
(* POST /consent/approve                                                   *)
(***************************************************************************)
\* validate_csrf_token returns normally
CsrfValid_Any(session_token, form_token) == TRUE
CsrfValid(session_token, form_token) == session_token # 0 /\ form_token # 0 /\ session_token = form_token
approve_consent(transaction_id, csrf_token) ==
    LET entry == EntryStatus(auth_transactions_store, transaction_id)
        \* the form carried the token the session holds
        authentic == session # 0 /\ csrf_token = session
        reply(status, detail, out) ==
            [Resp("/consent/approve", status, detail, transaction_id, out) EXCEPT !.entry = entry,
                                                                                  !.authentic = authentic]
    IN
    /\ HandlerFree
    /\ IF ~CsrfValid(session, csrf_token)
       THEN /\ session' = 0
            /\ resp' = reply(403, "Invalid CSRF token", 0)
            /\ UNCHANGED <<auth_transactions_store, approved>>
       ELSE IF ~StoreHas(auth_transactions_store, transaction_id)
       THEN /\ resp' = reply(400, "invalid_transaction", 0)
            /\ UNCHANGED <<auth_transactions_store, approved, session>>
       ELSE IF TransactionExpired(StoreGet(auth_transactions_store, transaction_id))
       THEN /\ auth_transactions_store' = StoreDelete(auth_transactions_store, transaction_id)
            /\ resp' = reply(400, "transaction_expired", 0)
            /\ UNCHANGED <<approved, session>>
       ELSE /\ resp' = reply(302, "oauth/v2/auth", transaction_id)
            /\ approved' = approved \cup {transaction_id}
            /\ UNCHANGED <<auth_transactions_store, session>>
    /\ UNCHANGED <<backend, now, registed_clients_store, auth_codes_store, nClients, nTxns, nCsrf, tok,
                   issued, consumed, failed, pk, rl, ps, cip, mw, dp, pr, ex, fc, rp, bs, rc>>

(***************************************************************************)
(* GET /auth/callback                                                      *)
(***************************************************************************)
\* AuthorizationCode(...) validates: upstream_location is declared `str`
AuthorizationCodeValid(upstream_location) == upstream_location # NoneVal
proxy_callback(code, state, location) ==
    LET transaction_id == state
        entry == EntryStatus(auth_transactions_store, transaction_id)
        reply(status, detail, out) ==
            [Resp("/auth/callback", status, detail, transaction_id, out) EXCEPT !.entry = entry,
                                                                                !.location = location]
    IN
    /\ HandlerFree
    /\ IF ~StoreHas(auth_transactions_store, transaction_id)
       THEN /\ resp' = reply(400, "invalid_state_or_transaction_expired", 0)
            /\ UNCHANGED <<auth_transactions_store, auth_codes_store, issued>>
       ELSE LET txn == StoreGet(auth_transactions_store, transaction_id)
            IN  IF TransactionExpired(txn)
                THEN /\ auth_transactions_store' = StoreDelete(auth_transactions_store, transaction_id)
                     /\ resp' = reply(400, "transaction_expired", 0)
                     /\ UNCHANGED <<auth_codes_store, issued>>
                ELSE IF ~AuthorizationCodeValid(location)
                THEN \* pydantic ValidationError, unhandled: 500
                     /\ resp' = reply(500, "ValidationError", 0)
                     /\ UNCHANGED <<auth_transactions_store, auth_codes_store, issued>>
                ELSE /\ Len(issued) < MaxCodes
                     /\ LET new_auth_code == Len(issued) + 1
                            auth_code == [expires_at |-> now + AUTH_CODE_TTL_SECONDS,
                                          transaction_id |-> transaction_id,
                                          client_id |-> txn.client_id,
                                          redirect_uri |-> txn.redirect_uri,
                                          code_challenge |-> txn.code_challenge,
                                          code_challenge_method |-> txn.code_challenge_method,
                                          upstream_location |-> location,
                                          upstream_code |-> code]
                       IN  /\ auth_codes_store' =
                                  StoreSet(auth_codes_store, new_auth_code, auth_code, AUTH_CODE_TTL_SECONDS)
                           /\ issued' = Append(issued, auth_code)
                           /\ UNCHANGED auth_transactions_store
                           /\ resp' = [reply(302, txn.redirect_uri, new_auth_code) EXCEPT !.client_id = txn.client_id]
    /\ UNCHANGED <<backend, now, registed_clients_store, nClients, nTxns, nCsrf, session, tok,
                   approved, consumed, failed, pk, rl, ps, cip, mw, dp, pr, ex, fc, rp, bs, rc>>

(***************************************************************************)
(* POST /token.  The handler of worker w stands at tok[w].pc:              *)
(*   "idle"    no request                                                  *)
(*   "expire"  the code read is past expires_at; its delete is next        *)
(*   "delete"  code and PKCE are accepted; auth_codes_store.delete is next *)
(*   "await"   upstream_token_exchange is running                          *)
(* The reads that open the handler (client registry, then code store) are  *)
(* one step: no step of another handler changes what the first returned.   *)
(* tok[w].late and tok[w].retry record whether, when the request arrived,  *)
(* an upstream exchange for its code had already returned 200, or raised.  *)
(***************************************************************************)
\* client_data and client_data.secret == client_secret
ClientAuthentic_IdOnly(client_id, client_secret) == StoreHas(registed_clients_store, client_id)
ClientAuthentic(client_id, client_secret) ==
    /\ StoreHas(registed_clients_store, client_id)
    /\ StoreGet(registed_clients_store, client_id).secret = client_secret
\* auth_code_data.client_id == client_id
CodeBelongsTo_Any(auth_code_data, client_id) == TRUE
\* the same with any registered client taken for the owner
CodeBelongsTo_Registered(auth_code_data, client_id) == client_id \in DOMAIN registed_clients_store.data
CodeBelongsTo(auth_code_data, client_id) == auth_code_data.client_id = client_id
\* not refresh_token: the form field is absent or empty
refresh_token_required_Never(refresh_token) == FALSE
refresh_token_required(refresh_token) == refresh_token = ""
\* the statement that follows on the accepting path of the authorization_code branch
token_next_NoDelete(pc) == "await"
token_next(pc) == IF pc = "load" THEN "delete" ELSE "await"

\* the response to a /token request: entry is what the code store held for the code when the
\* request arrived, verifier whether the form carried a code_verifier
TokenResp(req, entry, verifier, late, retry, authentic, status, detail) ==
    [Resp("/token", status, detail, req.code, 0) EXCEPT !.client_id = req.client_id, !.authentic = authentic,
                                                        !.entry = entry, !.verifier = verifier,
                                                        !.late = late, !.retry = retry]
TokResp(w, status, detail) ==
    TokenResp(tok[w],
              IF tok[w].pc = "expire" THEN "expired"
              ELSE IF tok[w].grant_type = "authorization_code" THEN "live" ELSE "",
              tok[w].verifier, tok[w].late, tok[w].retry, TRUE, status, detail)

\* the handler up to its first write to a store or its call upstream: client authentication,
\* grant dispatch, auth_codes_store.get(code), the checks on the code, validate_pkce
token_exchange(w, req) ==
    /\ tok[w].pc = "idle"
    /\ CanStep(w)
    /\ LET late == req.grant_type = "authorization_code" /\ req.code \in consumed
           retry == req.grant_type = "authorization_code" /\ req.code \in failed
           \* the request names a client of the registry and carries its secret
           authentic == /\ req.client_id \in DOMAIN registed_clients_store.data
                        /\ registed_clients_store.data[req.client_id].secret = req.client_secret
           entry == IF req.grant_type = "authorization_code" THEN EntryStatus(auth_codes_store, req.code)
                    ELSE ""
           verifier == req.code_verifier # <<>>
           reject(status, detail) ==
               /\ resp' = TokenResp(req, entry, verifier, late, retry, authentic, status, detail)
               /\ tok' = tok
           proceed(pc) ==
               /\ tok' = [tok EXCEPT ![w] = [pc |-> pc, grant_type |-> req.grant_type, code |-> req.code,
                                             client_id |-> req.client_id, verifier |-> verifier,
                                             late |-> late, retry |-> retry]]
               /\ UNCHANGED resp
       IN  IF ~ClientAuthentic(req.client_id, req.client_secret)
           THEN reject(401, "invalid_client")
           ELSE IF req.grant_type = "authorization_code"
           THEN IF req.code = 0
                THEN reject(400, "code_required")
                ELSE IF \/ ~StoreHas(auth_codes_store, req.code)
                        \/ ~CodeBelongsTo(StoreGet(auth_codes_store, req.code), req.client_id)
                THEN reject(400, "invalid_grant")
                ELSE LET auth_code_data == StoreGet(auth_codes_store, req.code)
                         pkce == validate_pkce(req.code_verifier, auth_code_data.code_challenge,
                                               auth_code_data.code_challenge_method)
                     IN  IF auth_code_data.expires_at < now THEN proceed("expire")
                         ELSE IF pkce = "TypeError" THEN reject(500, pkce)
                         ELSE IF pkce # "ok" THEN reject(400, pkce)
                         ELSE proceed(token_next("load"))
           ELSE IF req.grant_type = "refresh_token"
           THEN IF refresh_token_required(req.refresh_token) THEN reject(400, "refresh_token_required") ELSE proceed("await")
           ELSE reject(400, "unsupported_grant_type")
    /\ UNCHANGED <<backend, now, registed_clients_store, auth_transactions_store, auth_codes_store, nClients,
                   nTxns, nCsrf, session, issued, approved, consumed, failed, pk, rl, ps, cip, mw, dp, pr, ex, fc, rp, bs, rc>>

\* the expired branch: auth_codes_store.delete(code), then 400
token_expire(w) ==
    /\ tok[w].pc = "expire"
    /\ CanStep(w)
    /\ auth_codes_store' = StoreDelete(auth_codes_store, tok[w].code)
    /\ resp' = TokResp(w, 400, "invalid_grant")
    /\ tok' = [tok EXCEPT ![w] = IdleTok]
    /\ UNCHANGED <<backend, now, registed_clients_store, auth_transactions_store, nClients,
                   nTxns, nCsrf, session, issued, approved, consumed, failed, pk, rl, ps, cip, mw, dp, pr, ex, fc, rp, bs, rc>>

\* the accepting branch: auth_codes_store.delete(code), then upstream_token_exchange is called
token_delete(w) ==
    /\ tok[w].pc = "delete"
    /\ CanStep(w)
    /\ auth_codes_store' = StoreDelete(auth_codes_store, tok[w].code)
    /\ tok' = [tok EXCEPT ![w].pc = token_next("delete")]
    /\ UNCHANGED <<backend, now, registed_clients_store, auth_transactions_store, nClients,
                   nTxns, nCsrf, session, resp, issued, approved, consumed, failed, pk, rl, ps, cip, mw, dp, pr, ex, fc, rp, bs, rc>>

\* await upstream_token_exchange(upstream_payload): the upstream answers 2xx (ok), or the call
\* raises (non-2xx, transport failure)
upstream_token_exchange(w, ok) ==
    /\ tok[w].pc = "await"
    /\ CanStep(w)
    /\ resp' = IF ok THEN TokResp(w, 200, "upstream_tokens")
               ELSE TokResp(w, 502, "upstream_token_exchange_failed")
    /\ consumed' = IF ok /\ tok[w].grant_type = "authorization_code"
                   THEN consumed \cup {tok[w].code} ELSE consumed
    /\ failed' = IF ~ok /\ tok[w].grant_type = "authorization_code"
                 THEN failed \cup {tok[w].code} ELSE failed
    /\ tok' = [tok EXCEPT ![w] = IdleTok]
    /\ UNCHANGED <<backend, now, registed_clients_store, auth_transactions_store, auth_codes_store, nClients,
                   nTxns, nCsrf, session, issued, approved, pk, rl, ps, cip, mw, dp, pr, ex, fc, rp, bs, rc>>

(***************************************************************************)
(* TTL reaper (ttl_cleanup_task), one task per in-memory store.  The task  *)
(* wakes at instants of its own; only what a wake-up removes is modelled.  *)
(***************************************************************************)
Scopes == {"registered_clients", "auth_transactions", "auth_codes"}
ttl_cleanup_task(scope) ==
    /\ backend = "memory"
    /\ HandlerFree
    /\ LET s == IF scope = "registered_clients" THEN registed_clients_store
                ELSE IF scope = "auth_transactions" THEN auth_transactions_store ELSE auth_codes_store
       IN  /\ cleanup_expired(s) # s
           /\ registed_clients_store' = IF scope = "registered_clients" THEN cleanup_expired(s)
                                        ELSE registed_clients_store
           /\ auth_transactions_store' = IF scope = "auth_transactions" THEN cleanup_expired(s)
                                         ELSE auth_transactions_store
           /\ auth_codes_store' = IF scope = "auth_codes" THEN cleanup_expired(s) ELSE auth_codes_store
    /\ UNCHANGED <<backend, now, nClients, nTxns, nCsrf, session, tok, resp, issued, approved, consumed, failed, pk, rl, ps, cip, mw, dp, pr, ex, fc, rp, bs, rc>>

(***************************************************************************)
(* The clock                                                               *)
(***************************************************************************)
Tick(d) ==
    /\ HandlerFree
    /\ now + d <= MaxTime
    /\ now' = now + d
    /\ registed_clients_store' = NativeExpire(registed_clients_store, now + d)
    /\ auth_transactions_store' = NativeExpire(auth_transactions_store, now + d)
    /\ auth_codes_store' = NativeExpire(auth_codes_store, now + d)
    /\ UNCHANGED <<backend, nClients, nTxns, nCsrf, session, tok, resp, issued, approved, consumed, failed, pk, rl, ps, cip, mw, dp, pr, ex, fc, rp, bs, rc>>

(***************************************************************************)
(* Specification of the proxy                                              *)
(***************************************************************************)
PkIdle == [code_verifier |-> <<>>, code_challenge |-> <<>>, method |-> <<>>, outcome |-> "unused"]
InitFlow ==
    /\ now = 0
    /\ registed_clients_store = EmptyStore
    /\ auth_transactions_store = EmptyStore
    /\ auth_codes_store = EmptyStore
    /\ nClients = 0
    /\ nTxns = 0
    /\ nCsrf = 0
    /\ session = 0
    /\ tok = [w \in Workers |-> IdleTok]
    /\ resp = NoResp
    /\ issued = <<>>
    /\ approved = {}
    /\ consumed = {}
    /\ failed = {}
Init ==
    /\ backend \in Backends
    /\ InitFlow
    /\ pk = PkIdle
    /\ rl = RlIdle
    /\ ps = PsIdle
    /\ cip = CipIdle
    /\ mw = MwIdle
    /\ dp = NoRequest
    /\ pr = PrIdle
    /\ ex = ExIdle
    /\ fc = FcIdle
    /\ rp = RpIdle
    /\ bs = BsIdle
    /\ rc = RcIdle

\* csrf_token of the form: empty (0), a token the server minted, or one it never minted
FormTokens == 0..(MaxCsrf + 1)
Next ==
    \/ \E u \in RegisterRedirectUris : register_client(u)
    \/ \E c \in 1..MaxClients, u \in RedirectUris, s \in DownstreamStates, p \in AuthorizePkce :
           authorize(c, u, s, p[1], p[2])
    \/ \E t \in 1..MaxTxns : consent(t)
    \/ \E t \in 1..MaxTxns, k \in FormTokens : approve_consent(t, k)
    \/ \E u \in UpstreamCodes, t \in 1..MaxTxns, l \in Locations : proxy_callback(u, t, l)
    \/ \E r \in TokenRequests : token_exchange(1, r)
    \/ \E w \in Workers : token_expire(w)
    \/ \E w \in Workers : token_delete(w)
    \/ \E w \in Workers, ok \in BOOLEAN : upstream_token_exchange(w, ok)
    \/ respond
    \/ \E s \in Scopes : ttl_cleanup_task(s)
    \/ \E d \in TickSteps : Tick(d)

Spec == Init /\ [][Next]_vars

(***************************************************************************)
(* Workers behind one shared store.  The flow has run on worker 1 up to    *)
(* the callback: two clients are registered, client 1 holds proxy code 1   *)
(* of transaction 1 (challenge ChallengeA, S256); /token requests then     *)
(* arrive at any worker.                                                   *)
(***************************************************************************)
ClusterTransaction ==
    [expires_at |-> AUTH_TRANSACTION_TTL_SECONDS, client_id |-> 1, redirect_uri |-> "https://c/cb",
     state |-> "xyz", code_challenge |-> ChallengeA, code_challenge_method |-> S256]
ClusterCode ==
    [expires_at |-> AUTH_CODE_TTL_SECONDS, transaction_id |-> 1, client_id |-> 1,
     redirect_uri |-> "https://c/cb", code_challenge |-> ChallengeA, code_challenge_method |-> S256,
     upstream_location |-> "us", upstream_code |-> "UA"]
ClusterClient(c) == [redirect_uris |-> <<"https://c/cb">>, secret |-> c]
InitCluster ==
    /\ backend \in {"redis", "catalyst"}
    /\ now = 0
    /\ registed_clients_store =
           StoreSet(StoreSet(EmptyStore, 1, ClusterClient(1), CLIENT_TTL_SECONDS),
                    2, ClusterClient(2), CLIENT_TTL_SECONDS)
    /\ auth_transactions_store = StoreSet(EmptyStore, 1, ClusterTransaction, AUTH_TRANSACTION_TTL_SECONDS)
    /\ auth_codes_store = StoreSet(EmptyStore, 1, ClusterCode, AUTH_CODE_TTL_SECONDS)
    /\ nClients = 2
    /\ nTxns = 1
    /\ nCsrf = 1
    /\ session = 1
    /\ tok = [w \in Workers |-> IdleTok]
    /\ resp = NoResp
    /\ issued = <<ClusterCode>>
    /\ approved = {1}
    /\ consumed = {}
    /\ failed = {}
    /\ pk = PkIdle
    /\ rl = RlIdle
    /\ ps = PsIdle
    /\ cip = CipIdle
    /\ mw = MwIdle
    /\ dp = NoRequest
    /\ pr = PrIdle
    /\ ex = ExIdle
    /\ fc = FcIdle
    /\ rp = RpIdle
    /\ bs = BsIdle
    /\ rc = RcIdle
NextCluster ==
    \/ \E w \in Workers, r \in TokenRequests : token_exchange(w, r)
    \/ \E w \in Workers : token_expire(w)
    \/ \E w \in Workers : token_delete(w)
    \/ \E w \in Workers, ok \in BOOLEAN : upstream_token_exchange(w, ok)
    \/ respond
    \/ \E d \in TickSteps : Tick(d)
SpecCluster == InitCluster /\ [][NextCluster]_vars

(***************************************************************************)
(* validate_pkce on its own: the arguments are drawn from the sets below   *)
(* and the function is applied once                                        *)
(***************************************************************************)
VerifierShort == [i \in 1..42 |-> 97]
VerifierOverlong == [i \in 1..129 |-> 97]
VerifierPlus == [i \in 1..43 |-> IF i = 1 THEN 43 ELSE 97]
PkceVerifiers ==
    {<<>>, VerifierA, VerifierB, VerifierNewline, VerifierLong, VerifierShort, VerifierOverlong, VerifierPlus}
PkceChallenges == {<<>>, ChallengeA, ChallengeB, ChallengeLong, VerifierA, VerifierB, <<233>>}
PkceMethods == {<<>>, S256, <<115, 50, 53, 54>>, plain, PLAIN, <<83, 53, 49, 50>>}
InitPkce ==
    /\ backend = "memory"
    /\ InitFlow
    /\ pk \in [code_verifier : PkceVerifiers, code_challenge : PkceChallenges, method : PkceMethods,
               outcome : {"unused"}]
    /\ rl = RlIdle
    /\ ps = PsIdle
    /\ cip = CipIdle
    /\ mw = MwIdle
    /\ dp = NoRequest
    /\ pr = PrIdle
    /\ ex = ExIdle
    /\ fc = FcIdle
    /\ rp = RpIdle
    /\ bs = BsIdle
    /\ rc = RcIdle
pkce_check ==
    /\ pk.outcome = "unused"
    /\ pk' = [pk EXCEPT !.outcome = validate_pkce(pk.code_verifier, pk.code_challenge, pk.method)]
    /\ UNCHANGED <<flowVars, rl, ps, cip, mw, dp, pr, ex, fc, rp, bs, rc>>
NextPkce == pkce_check
SpecPkce == InitPkce /\ [][NextPkce]_vars

(***************************************************************************)
(* The life of a transaction against the clock: clients register and       *)
(* create transactions at time 0, then the clock, the reaper and /consent  *)
(* run in any order.                                                       *)
(***************************************************************************)
NextExpiry ==
    \/ \E u \in RegisterRedirectUris : register_client(u)
    \/ \E c \in 1..MaxClients, u \in RedirectUris, s \in DownstreamStates, p \in AuthorizePkce :
           now = 0 /\ authorize(c, u, s, p[1], p[2])
    \/ \E t \in 1..MaxTxns : consent(t)
    \/ respond
    \/ \E s \in Scopes : ttl_cleanup_task(s)
    \/ \E d \in TickSteps : Tick(d)
SpecExpiry == Init /\ [][NextExpiry]_vars

(***************************************************************************)
(* Registration and /authorize with any strings as redirect URIs: /register *)
(* stores redirect_uris as plain strings                                   *)
(***************************************************************************)
RegisterRedirectUrisAny == {<<"https://c/cb">>, <<"cb">>, <<>>}
RedirectUrisAny == {"https://c/cb", "https://x/cb", "cb"}
NextAuthorize ==
    \/ \E u \in RegisterRedirectUrisAny : register_client(u)
    \/ \E c \in 1..MaxClients, u \in RedirectUrisAny, s \in DownstreamStates, p \in AuthorizePkce :
           authorize(c, u, s, p[1], p[2])
    \/ respond
    \/ \E d \in TickSteps : Tick(d)
SpecAuthorize == Init /\ [][NextAuthorize]_vars

(***************************************************************************)
(* What each handler writes.  A response is described by the values its    *)
(* body or redirect URL is built from (body), the values its log lines     *)
(* interpolate (log), and the values it sends to the upstream (upstream).  *)
(***************************************************************************)
Writes(body, log, upstream) == [body |-> body, log |-> log, upstream |-> upstream]
register_client_writes(status) ==
    Writes({"client_id", "client_secret", "redirect_uris", "grant_types", "response_types",
            "registration_client_uri", "registration_access_token"},
           {"client_id", "client_name"}, {})
authorize_writes(status) ==
    IF status = 302 THEN Writes({"transaction_id"}, {"client_id", "transaction_id"}, {})
    ELSE IF status = 401 THEN Writes({"invalid_token.html"}, {"client_id"}, {})
    ELSE IF status = 400 THEN Writes({"detail"}, {"client_id"}, {})
    ELSE Writes({}, {}, {})
consent_writes(status) ==
    IF status = 200 THEN Writes({"transaction_id", "client_id", "scope", "csrf_token"}, {"transaction_id"}, {})
    ELSE Writes({"detail"}, {"transaction_id"}, {})
approve_consent_writes(status) ==
    IF status = 302
    THEN Writes({"OIDC_PROVIDER_BASE_URL", "OIDC_PROVIDER_CLIENT_ID", "MCP_SERVER_PUBLIC_URL", "scope",
                 "transaction_id"},
                {"transaction_id"}, {})
    ELSE IF status = 403 THEN Writes({"detail"}, {}, {})
    ELSE Writes({"detail"}, {"transaction_id"}, {})
proxy_callback_writes_UpstreamCode(status) ==
    IF status = 302 THEN Writes({"redirect_uri", "code", "state"}, {"transaction_id", "client_id"}, {})
    ELSE Writes({"detail"}, {"transaction_id"}, {})
proxy_callback_writes(status) ==
    IF status = 302 THEN Writes({"redirect_uri", "new_auth_code", "state"}, {"transaction_id", "client_id"}, {})
    ELSE IF status = 500 THEN Writes({}, {"transaction_id"}, {})
    ELSE Writes({"detail"}, {"transaction_id"}, {})
\* upstream_token_exchange posts the payload with the static credentials and, on an HTTP error
\* status, logs the upstream's response text
token_exchange_writes(status) ==
    IF status = 200
    THEN Writes({"upstream_tokens"}, {"client_id"},
                {"grant_type", "code", "refresh_token", "OIDC_PROVIDER_CLIENT_ID",
                 "OIDC_PROVIDER_CLIENT_SECRET", "MCP_SERVER_PUBLIC_URL"})
    ELSE IF status = 502
    THEN Writes({"detail"}, {"client_id", "grant_type", "upstream_response_text", "exc_info"},
                {"grant_type", "code", "refresh_token", "OIDC_PROVIDER_CLIENT_ID",
                 "OIDC_PROVIDER_CLIENT_SECRET", "MCP_SERVER_PUBLIC_URL"})
    ELSE IF status = 401 THEN Writes({"error", "error_description", "help_url"}, {"client_id"}, {})
    ELSE Writes({"detail"}, {"client_id", "grant_type"}, {})
Written(r) ==
    IF r.ep = "/register" THEN register_client_writes(r.status)
    ELSE IF r.ep = "/authorize" THEN authorize_writes(r.status)
    ELSE IF r.ep = "/consent" THEN consent_writes(r.status)
    ELSE IF r.ep = "/consent/approve" THEN approve_consent_writes(r.status)
    ELSE IF r.ep = "/auth/callback" THEN proxy_callback_writes(r.status)
    ELSE IF r.ep = "/token" THEN token_exchange_writes(r.status)
    ELSE Writes({}, {}, {})


(***************************************************************************)
(* The rate limiters on their own: the in-process bucket and the Redis     *)
(* script are given the same calls at the same instants                    *)
(***************************************************************************)
limiter_allow(key) ==
    LET m == allow(rl.buckets[key], rl.t, rl.capacity, rl.entry_ttl_seconds)
        r == TOKEN_BUCKET_SCRIPT(rl.redis[key], rl.t, rl.capacity, 1)
        c == rl.calls[key]
        n == IF m.fresh THEN 1 ELSE Min(c.n + 1, MaxCapacity + 2)
        first == IF m.fresh THEN rl.t ELSE c.first
    IN  /\ rl' = [rl EXCEPT
                    !.buckets[key] = m.bucket,
                    !.redis[key] = r.bucket,
                    !.calls[key] = [first |-> first, n |-> n, called_at |-> rl.t,
                                    admitted_at |-> IF m.allowed THEN rl.t ELSE c.admitted_at,
                                    denied_at |-> IF m.allowed THEN -1 ELSE rl.t],
                    !.last = [NoCall EXCEPT !.op = "allow", !.key = key, !.at = rl.t, !.mem = m.allowed,
                                            !.redis = r.allowed, !.n = n, !.first = first,
                                            !.prev_at = c.called_at,
                                            !.access_before = rl.buckets[key].last_access,
                                            !.access_after = m.bucket.last_access]]
        /\ UNCHANGED <<flowVars, pk, ps, cip, mw, dp, pr, ex, fc, rp, bs, rc>>

\* rate_limiter_cleanup_task: one run of InMemoryTokenBucket.cleanup()
limiter_cleanup ==
    LET to_delete == cleanup(rl.buckets, rl.t, rl.entry_ttl_seconds)
    IN  /\ rl' = [rl EXCEPT
                    !.buckets = [k \in RlKeys |-> IF k \in to_delete THEN NoBucket ELSE rl.buckets[k]],
                    !.last = [NoCall EXCEPT !.op = "cleanup", !.at = rl.t,
                                            !.had = {k \in RlKeys : rl.buckets[k] # NoBucket},
                                            !.removed = to_delete,
                                            !.count = Cardinality(to_delete)]]
        /\ UNCHANGED <<flowVars, pk, ps, cip, mw, dp, pr, ex, fc, rp, bs, rc>>

\* time.monotonic() and the Redis TIME advance together
limiter_tick ==
    /\ rl.t < MaxRlTime
    /\ rl' = [rl EXCEPT !.t = rl.t + 1]
    /\ UNCHANGED <<flowVars, pk, ps, cip, mw, dp, pr, ex, fc, rp, bs, rc>>

InitLimiter ==
    /\ backend = "memory"
    /\ InitFlow
    /\ pk = PkIdle
    /\ rl \in {RlConfig(c, e) : c \in 1..MaxCapacity, e \in EntryTtls}
    /\ ps = PsIdle
    /\ cip = CipIdle
    /\ mw = MwIdle
    /\ dp = NoRequest
    /\ pr = PrIdle
    /\ ex = ExIdle
    /\ fc = FcIdle
    /\ rp = RpIdle
    /\ bs = BsIdle
    /\ rc = RcIdle
\* the second key is only called at the start and then left alone
NextLimiter ==
    \/ limiter_allow("ip1")
    \/ rl.t = 0 /\ limiter_allow("ip2")
    \/ limiter_cleanup
    \/ limiter_tick
SpecLimiter == InitLimiter /\ [][NextLimiter]_vars

(***************************************************************************)
(* The in-memory store on its own: set, delete and get with keys and TTLs  *)
(* of the caller's choosing, and the reaper waking every REAPER_PERIOD     *)
(***************************************************************************)
probe_set(key, ttl_in_sec) ==
    /\ ps.nWrites < MaxWrites
    /\ ps' = [ps EXCEPT !.store = InMemorySet(ps.store, key, ps.nWrites + 1, ttl_in_sec),
                        !.written[key] = [op |-> "set", at |-> now, ttl |-> ttl_in_sec,
                                          value |-> ps.nWrites + 1],
                        !.nWrites = ps.nWrites + 1]
    /\ UNCHANGED <<flowVars, pk, rl, cip, mw, dp, pr, ex, fc, rp, bs, rc>>

probe_delete(key) ==
    /\ ps.nWrites < MaxWrites
    /\ ps' = [ps EXCEPT !.store = StoreDelete(ps.store, key),
                        !.written[key] = [op |-> "delete", at |-> now, ttl |-> 0, value |-> 0],
                        !.nWrites = ps.nWrites + 1]
    /\ UNCHANGED <<flowVars, pk, rl, cip, mw, dp, pr, ex, fc, rp, bs, rc>>

\* InMemoryProvider.get
probe_get(key) ==
    /\ ps' = [ps EXCEPT !.got = [op |-> "get", key |-> key, at |-> now, hit |-> StoreHas(ps.store, key),
                                  value |-> IF StoreHas(ps.store, key) THEN StoreGet(ps.store, key) ELSE 0,
                                  last |-> ps.written[key]]]
    /\ UNCHANGED <<flowVars, pk, rl, cip, mw, dp, pr, ex, fc, rp, bs, rc>>

\* ttl_cleanup_task: cleanup_expired(), then asyncio.sleep(60)
probe_reap ==
    /\ now >= ps.next_reap
    /\ ps' = [ps EXCEPT !.store = cleanup_expired(ps.store), !.next_reap = ps.next_reap + REAPER_PERIOD]
    /\ UNCHANGED <<flowVars, pk, rl, cip, mw, dp, pr, ex, fc, rp, bs, rc>>

\* the clock advances unless the reaper is due
probe_tick ==
    /\ now < ps.next_reap
    /\ now + ProbeStep <= MaxTime
    /\ now' = now + ProbeStep
    /\ UNCHANGED <<backend, registed_clients_store, auth_transactions_store, auth_codes_store, nClients, nTxns,
                   nCsrf, session, tok, resp, issued, approved, consumed, failed, pk, rl, ps, cip, mw, dp, pr, ex, fc, rp, bs, rc>>

InitStore ==
    /\ backend = "memory"
    /\ InitFlow
    /\ pk = PkIdle
    /\ rl = RlIdle
    /\ ps = PsIdle
    /\ cip = CipIdle
    /\ mw = MwIdle
    /\ dp = NoRequest
    /\ pr = PrIdle
    /\ ex = ExIdle
    /\ fc = FcIdle
    /\ rp = RpIdle
    /\ bs = BsIdle
    /\ rc = RcIdle
NextStore ==
    \/ \E k \in ProbeKeys, ttl \in ProbeTtls : probe_set(k, ttl)
    \/ \E k \in ProbeKeys : probe_delete(k)
    \/ \E k \in ProbeKeys : probe_get(k)
    \/ probe_reap
    \/ probe_tick
SpecStore == InitStore /\ [][NextStore]_vars

(***************************************************************************)
(* get_client_ip on its own: the settings and the request are drawn from   *)
(* the sets below and the function is applied once                         *)
(***************************************************************************)
MaxForwarded == 2
ForwardedTokens == {InnerProxyAddress, OtherAddress, NotAnAddress, ""}
ForwardedFor == UNION {[1..n -> ForwardedTokens] : n \in 0..MaxForwarded}
ClientIpSettings ==
    {SettingsAsDeclared} \cup {ProxySettings(b, nets) : b \in BOOLEAN, nets \in {{}, {ProxyNetwork}}}
InitClientIp ==
    /\ backend = "memory"
    /\ InitFlow
    /\ pk = PkIdle
    /\ rl = RlIdle
    /\ ps = PsIdle
    /\ cip \in [settings : ClientIpSettings, connecting_ip : {"", ProxyAddress, ClientAddress},
                xff : ForwardedFor, x_real_ip : {"", OtherAddress}, result : {"unused"}]
    /\ mw = MwIdle
    /\ dp = NoRequest
    /\ pr = PrIdle
    /\ ex = ExIdle
    /\ fc = FcIdle
    /\ rp = RpIdle
    /\ bs = BsIdle
    /\ rc = RcIdle
client_ip_check ==
    /\ cip.result = "unused"
    /\ cip' = [cip EXCEPT !.result = get_client_ip(cip.settings, cip.connecting_ip, cip.xff, cip.x_real_ip)]
    /\ UNCHANGED <<flowVars, pk, rl, ps, mw, dp, pr, ex, fc, rp, bs, rc>>
NextClientIp == client_ip_check
SpecClientIp == InitClientIp /\ [][NextClientIp]_vars

(***************************************************************************)
(* A request through the front-end: each middleware in turn, then the      *)
(* router                                                                  *)
(***************************************************************************)
\* the component whose turn it is
Turn(component) == mw.rest # <<>> /\ Head(mw.rest) = component
\* the component calls the next one
PassOn(component) ==
    [mw EXCEPT !.rest = Tail(mw.rest), !.ran = Append(mw.ran, component), !.passed = @ \cup {component}]
\* the component answers and the request goes no further
Answer(component, response) ==
    [mw EXCEPT !.rest = <<>>, !.ran = Append(mw.ran, component), !.response = response]

\* SessionMiddleware: loads the session cookie and calls the app
session_middleware ==
    /\ Turn("SessionMiddleware")
    /\ mw' = PassOn("SessionMiddleware")
    /\ UNCHANGED <<flowVars, pk, rl, ps, cip, dp, pr, ex, fc, rp, bs, rc>>

\* AuthMiddleware.dispatch
auth_middleware ==
    /\ Turn("AuthMiddleware")
    /\ IF Exempt(mw.path)
       THEN mw' = PassOn("AuthMiddleware")
       ELSE LET d == dispatch(mw.public_url, mw.authorization, mw.probe)
            IN  mw' = IF d.response = NoResponse
                      THEN [PassOn("AuthMiddleware") EXCEPT !.probes = d.probes]
                      ELSE [Answer("AuthMiddleware", d.response) EXCEPT !.probes = d.probes]
    /\ UNCHANGED <<flowVars, pk, rl, ps, cip, dp, pr, ex, fc, rp, bs, rc>>

\* MaxBodySizeMiddleware.__call__ for a request whose body stays within the limit
body_size_middleware ==
    /\ Turn("MaxBodySizeMiddleware")
    /\ LET v == ContentLengthVerdict(mw.content_length)
       IN  mw' = IF v.status = 0 THEN PassOn("MaxBodySizeMiddleware")
                 ELSE Answer("MaxBodySizeMiddleware",
                             [NoResponse EXCEPT !.status = v.status, !.detail = v.detail])
    /\ UNCHANGED <<flowVars, pk, rl, ps, cip, dp, pr, ex, fc, rp, bs, rc>>

\* the router and the handler it selects
router ==
    /\ Turn("router")
    /\ mw' = Answer("router", [NoResponse EXCEPT !.status = 200])
    /\ UNCHANGED <<flowVars, pk, rl, ps, cip, dp, pr, ex, fc, rp, bs, rc>>

\* Content-Length headers: none, "", "abc", "12a", "0", "-1", " 7 ", "1_000", and the limit,
\* one less, one more, and 2000000
ContentLengths ==
    {[present |-> FALSE, text |-> <<>>]} \cup
    {[present |-> TRUE, text |-> t] :
        t \in {<<>>, <<97, 98, 99>>, <<49, 50, 97>>, <<48>>, <<45, 49>>, <<32, 55, 32>>, <<49, 95, 48, 48, 48>>,
               <<49, 48, 52, 56, 53, 55, 53>>, <<49, 48, 52, 56, 53, 55, 54>>, <<49, 48, 52, 56, 53, 55, 55>>,
               <<50, 48, 48, 48, 48, 48, 48>>}}
\* Authorization headers split at whitespace: none, "Bearer t", "bearer t", "BEARER t",
\* "Basic t", "Bearer", "Bearer t u"
Authorizations ==
    {<<>>, <<"Bearer", "t">>, <<"bearer", "t">>, <<"BEARER", "t">>, <<"Basic", "t">>, <<"Bearer">>,
     <<"Bearer", "t", "u">>}
\* what analytics_client.get_owned_workspaces does with the token
Probes == {"ok", "ValueError", "ServerError", "ConnectionError"}
PublicUrls == {"None", "https://mcp.example.com"}
InitMiddleware ==
    /\ backend = "memory"
    /\ InitFlow
    /\ pk = PkIdle
    /\ rl = RlIdle
    /\ ps = PsIdle
    /\ cip = CipIdle
    /\ dp = NoRequest
    /\ pr = PrIdle
    /\ ex = ExIdle
    /\ fc = FcIdle
    /\ rp = RpIdle
    /\ bs = BsIdle
    /\ rc = RcIdle
    /\ mw \in {MwRequest(u, p, c, a, x) :
                  u \in PublicUrls, p \in RequestPaths, c \in ContentLengths, a \in Authorizations, x \in Probes}
NextMiddleware ==
    \/ session_middleware
    \/ auth_middleware
    \/ body_size_middleware
    \/ router
SpecMiddleware == InitMiddleware /\ [][NextMiddleware]_vars

(***************************************************************************)
(* Grant dispatch at /token: clients 1 and 2 are registered, client 1      *)
(* holds proxy code 1; one request at a time is sent, with any grant_type, *)
(* and a code, a refresh_token and a code_verifier whatever the grant_type *)
(***************************************************************************)
GrantTypes == {"authorization_code", "refresh_token", "password", "REFRESH_TOKEN"}
DispatchRequests ==
    [grant_type : GrantTypes, code : 0..MaxCodes, client_id : 1..MaxClients, client_secret : 0..MaxClients,
     refresh_token : {"", "RT"}, code_verifier : TokenVerifiers]
InitDispatch ==
    /\ backend \in Backends
    /\ now = 0
    /\ registed_clients_store =
           StoreSet(StoreSet(EmptyStore, 1, ClusterClient(1), CLIENT_TTL_SECONDS),
                    2, ClusterClient(2), CLIENT_TTL_SECONDS)
    /\ auth_transactions_store = StoreSet(EmptyStore, 1, ClusterTransaction, AUTH_TRANSACTION_TTL_SECONDS)
    /\ auth_codes_store = StoreSet(EmptyStore, 1, ClusterCode, AUTH_CODE_TTL_SECONDS)
    /\ nClients = 2
    /\ nTxns = 1
    /\ nCsrf = 1
    /\ session = 1
    /\ tok = [w \in Workers |-> IdleTok]
    /\ resp = NoResp
    /\ issued = <<ClusterCode>>
    /\ approved = {1}
    /\ consumed = {}
    /\ failed = {}
    /\ pk = PkIdle
    /\ rl = RlIdle
    /\ ps = PsIdle
    /\ cip = CipIdle
    /\ mw = MwIdle
    /\ dp = NoRequest
    /\ pr = PrIdle
    /\ ex = ExIdle
    /\ fc = FcIdle
    /\ rp = RpIdle
    /\ bs = BsIdle
    /\ rc = RcIdle
\* a client posts the form to /token
token_request(r) ==
    /\ tok[1].pc = "idle"
    /\ resp = NoResp
    /\ dp # r
    /\ dp' = r
    /\ UNCHANGED <<flowVars, pk, rl, ps, cip, mw, pr, ex, fc, rp, bs, rc>>
NextDispatch ==
    \/ \E r \in DispatchRequests : token_request(r)
    \/ dp # NoRequest /\ token_exchange(1, dp)
    \/ token_expire(1)
    \/ token_delete(1)
    \/ \E ok \in BOOLEAN : upstream_token_exchange(1, ok)
    \/ respond
    \/ \E d \in TickSteps : Tick(d)
SpecDispatch == InitDispatch /\ [][NextDispatch]_vars

(***************************************************************************)
(* Partial refill: a fresh key is called at one instant until both         *)
(* limiters deny it, the clock then moves by less than the window, and the *)
(* key is called again until both deny it.  cleanup() may run at any point *)
(***************************************************************************)
\* limiter.allow(key) on both limiters at pr.t; a limiter that has denied is not called again
refill_allow ==
    /\ pr.denied.mem = 0 \/ pr.denied.redis = 0
    /\ LET m == IF pr.denied.mem = 0
                THEN allow(pr.bucket, pr.t, pr.capacity, pr.entry_ttl_seconds)
                ELSE [bucket |-> pr.bucket, allowed |-> FALSE, fresh |-> FALSE]
           r == IF pr.denied.redis = 0
                THEN TOKEN_BUCKET_SCRIPT(pr.hash, pr.t, pr.capacity, 1)
                ELSE [bucket |-> pr.hash, allowed |-> FALSE]
       IN  pr' = [pr EXCEPT
                    !.bucket = m.bucket,
                    !.hash = r.bucket,
                    !.admitted = [mem |-> pr.admitted.mem + (IF m.allowed THEN 1 ELSE 0),
                                  redis |-> pr.admitted.redis + (IF r.allowed THEN 1 ELSE 0)],
                    !.denied = [mem |-> IF m.allowed THEN 0 ELSE 1,
                                redis |-> IF r.allowed THEN 0 ELSE 1]]
    /\ UNCHANGED <<flowVars, pk, rl, ps, cip, mw, dp, ex, fc, rp, bs, rc>>
\* the key was denied by both limiters after `capacity` admissions; d ticks pass
refill_wait(d) ==
    /\ pr.exhausted_at = -1
    /\ pr.denied = [mem |-> 1, redis |-> 1]
    /\ pr.admitted = [mem |-> pr.capacity, redis |-> pr.capacity]
    /\ pr' = [pr EXCEPT !.exhausted_at = pr.t, !.t = pr.t + d, !.admitted = NoDecisions,
                        !.denied = NoDecisions]
    /\ UNCHANGED <<flowVars, pk, rl, ps, cip, mw, dp, ex, fc, rp, bs, rc>>
\* rate_limiter_cleanup_task: one run of InMemoryTokenBucket.cleanup() that removes the key
refill_cleanup ==
    /\ pr.bucket # NoBucket
    /\ pr.t - pr.bucket.last_access > pr.entry_ttl_seconds
    /\ pr' = [pr EXCEPT !.bucket = NoBucket]
    /\ UNCHANGED <<flowVars, pk, rl, ps, cip, mw, dp, ex, fc, rp, bs, rc>>
InitRefill ==
    /\ backend = "memory"
    /\ InitFlow
    /\ pk = PkIdle
    /\ rl = RlIdle
    /\ ps = PsIdle
    /\ cip = CipIdle
    /\ mw = MwIdle
    /\ dp = NoRequest
    /\ pr \in {PrConfig(c, e, t) : c \in 1..MaxRefillCapacity, e \in EntryTtls, t \in 0..1}
    /\ ex = ExIdle
    /\ fc = FcIdle
    /\ rp = RpIdle
    /\ bs = BsIdle
    /\ rc = RcIdle
NextRefill ==
    \/ refill_allow
    \/ \E d \in 1..(WindowTicks - 1) : refill_wait(d)
    \/ refill_cleanup
SpecRefill == InitRefill /\ [][NextRefill]_vars

(***************************************************************************)
(* The rate limiters with allow_tokens: besides the calls of SpecLimiter,  *)
(* the Redis limiter is asked for several tokens at once                   *)
(***************************************************************************)
\* the clock of this specification stops here
MaxTokensTime == 6
\* RedisTokenBucketRateLimiter.allow_tokens(key, tokens)
limiter_allow_tokens(key, tokens) ==
    LET r == TOKEN_BUCKET_SCRIPT(rl.redis[key], rl.t, rl.capacity, tokens)
    IN  /\ rl' = [rl EXCEPT
                    !.redis[key] = r.bucket,
                    !.last = [NoCall EXCEPT !.op = "allow_tokens", !.key = key, !.at = rl.t,
                                            !.redis = r.allowed, !.requested = tokens]]
        /\ UNCHANGED <<flowVars, pk, ps, cip, mw, dp, pr, ex, fc, rp, bs, rc>>
NextBucket ==
    \/ limiter_allow("ip1")
    \/ rl.t = 0 /\ limiter_allow("ip2")
    \/ \E n \in 1..(MaxCapacity + 1) : limiter_allow_tokens("ip1", n)
    \/ limiter_cleanup
    \/ rl.t < MaxTokensTime /\ limiter_tick
SpecBucket == InitLimiter /\ [][NextBucket]_vars

(***************************************************************************)
(* The expiry of a Redis bucket: a limiter is built for a capacity and a   *)
(* window and its script runs once                                         *)
(***************************************************************************)
InitExpire ==
    /\ backend = "redis"
    /\ InitFlow
    /\ pk = PkIdle
    /\ rl = RlIdle
    /\ ps = PsIdle
    /\ cip = CipIdle
    /\ mw = MwIdle
    /\ dp = NoRequest
    /\ pr = PrIdle
    /\ ex \in {ExConfig(c, ExpiryWindows[i]) : c \in ExpiryCapacities, i \in 1..Len(ExpiryWindows)}
    /\ fc = FcIdle
    /\ rp = RpIdle
    /\ bs = BsIdle
    /\ rc = RcIdle
\* redis.call("PEXPIRE", key, ttl)
script_pexpire ==
    /\ ex.ttl = -1
    /\ ex' = [ex EXCEPT !.ttl = pexpire_ttl(ex.capacity, ex.window_seconds)]
    /\ UNCHANGED <<flowVars, pk, rl, ps, cip, mw, dp, pr, fc, rp, bs, rc>>
NextExpire == script_pexpire
SpecExpire == InitExpire /\ [][NextExpire]_vars

(***************************************************************************)
(* The limiter factory called by concurrent tasks                          *)
(***************************************************************************)
\* a task calls build_rate_limiter(capacity, window_seconds)
build_rate_limiter(t, key) ==
    /\ fc.task[t].pc = "idle"
    /\ fc.builds < MaxBuilds
    /\ LET called == [fc EXCEPT !.task[t].key = key, !.builds = fc.builds + 1]
       IN  fc' = IF called.cache[key] # 0 THEN Returned(called, t, called.cache[key])
                 ELSE IF called.lock # 0 THEN [called EXCEPT !.task[t].pc = "lock"]
                 ELSE Locked(called, t, backend = "redis")
    /\ UNCHANGED <<flowVars, pk, rl, ps, cip, mw, dp, pr, ex, rp, bs, rc>>
\* a task waiting for the lock is given it
lock_acquired(t) ==
    /\ fc.task[t].pc = "lock"
    /\ fc.lock = 0
    /\ fc' = Locked(fc, t, backend = "redis")
    /\ UNCHANGED <<flowVars, pk, rl, ps, cip, mw, dp, pr, ex, rp, bs, rc>>
\* await cls._instance.ping() returns, or raises and the exception leaves build_rate_limiter
ping(t, ok) ==
    /\ fc.task[t].pc = "ping"
    /\ fc' = IF ok THEN ConstructAndRegister(fc, t) ELSE Returned([fc EXCEPT !.lock = 0], t, -1)
    /\ UNCHANGED <<flowVars, pk, rl, ps, cip, mw, dp, pr, ex, rp, bs, rc>>
\* the caller has its limiter and may call again
build_returned(t) ==
    /\ fc.task[t].pc = "done"
    /\ fc' = [fc EXCEPT !.task[t] = NoTask]
    /\ UNCHANGED <<flowVars, pk, rl, ps, cip, mw, dp, pr, ex, rp, bs, rc>>
InitFactory ==
    /\ backend \in Backends
    /\ InitFlow
    /\ pk = PkIdle
    /\ rl = RlIdle
    /\ ps = PsIdle
    /\ cip = CipIdle
    /\ mw = MwIdle
    /\ dp = NoRequest
    /\ pr = PrIdle
    /\ ex = ExIdle
    /\ fc = FcIdle
    /\ rp = RpIdle
    /\ bs = BsIdle
    /\ rc = RcIdle
NextFactory ==
    \/ \E t \in Tasks, key \in LimiterKeys : build_rate_limiter(t, key)
    \/ \E t \in Tasks : lock_acquired(t)
    \/ \E t \in Tasks, ok \in BOOLEAN : ping(t, ok)
    \/ \E t \in Tasks : build_returned(t)
SpecFactory == InitFactory /\ [][NextFactory]_vars

(***************************************************************************)
(* The lifespan of the application and its background cleanup tasks        *)
(***************************************************************************)
\* lifespan up to its yield: the tasks are created and the global limiter is built; with Redis
\* the build may raise, and the application does not start
lifespan_startup(built) ==
    /\ rp.phase = "startup"
    /\ built \/ backend = "redis"
    /\ rp' = IF built
             THEN [rp EXCEPT !.phase = "serving",
                             !.background_tasks = Created(backend),
                             !.task = [s \in DOMAIN rp.task |->
                                          IF \E i \in 1..Len(Created(backend)) : Created(backend)[i] = s
                                          THEN [NoBackgroundTask EXCEPT !.pc = "tick"]
                                          ELSE NoBackgroundTask]]
             ELSE [rp EXCEPT !.phase = "failed"]
    /\ UNCHANGED <<flowVars, pk, rl, ps, cip, mw, dp, pr, ex, fc, bs, rc>>
\* one turn of the loop of a cleanup task: the cleanup runs, and returns or raises
cleanup_tick(s, raised) ==
    /\ rp.task[s].pc = "tick"
    /\ ~rp.task[s].cancel
    /\ raised => s # "rate_limiter"
    /\ rp' = [rp EXCEPT !.task[s].pc = after_cleanup(raised),
                        !.task[s].cause = IF after_cleanup(raised) = "terminated" THEN "exception" ELSE "",
                        !.task[s].last = IF raised THEN "raised" ELSE "ok",
                        !.task[s].runs = Min(rp.task[s].runs + 1, MaxRuns)]
    /\ UNCHANGED <<flowVars, pk, rl, ps, cip, mw, dp, pr, ex, fc, bs, rc>>
\* await asyncio.sleep(60) returns
cleanup_wake(s) ==
    /\ rp.task[s].pc = "sleep"
    /\ ~rp.task[s].cancel
    /\ rp' = [rp EXCEPT !.task[s].pc = "tick"]
    /\ UNCHANGED <<flowVars, pk, rl, ps, cip, mw, dp, pr, ex, fc, bs, rc>>
\* the application shuts down: lifespan resumes after its yield
lifespan_shutdown ==
    /\ rp.phase = "serving"
    /\ rp' = [rp EXCEPT !.phase = "stopping", !.next = 1]
    /\ UNCHANGED <<flowVars, pk, rl, ps, cip, mw, dp, pr, ex, fc, bs, rc>>
\* task.cancel() for the next task of background_tasks, or the end of the loop
lifespan_cancel ==
    /\ rp.phase = "stopping"
    /\ rp' = IF rp.next > Len(rp.background_tasks)
             THEN [rp EXCEPT !.phase = "stopped"]
             ELSE [rp EXCEPT !.phase = "awaiting", !.task[rp.background_tasks[rp.next]].cancel = TRUE]
    /\ UNCHANGED <<flowVars, pk, rl, ps, cip, mw, dp, pr, ex, fc, bs, rc>>
\* CancelledError is raised in the task where it is suspended
cleanup_cancelled(s) ==
    /\ rp.task[s].pc \in {"tick", "sleep"}
    /\ rp.task[s].cancel
    /\ rp' = [rp EXCEPT !.task[s].pc = "terminated", !.task[s].cause = "cancelled"]
    /\ UNCHANGED <<flowVars, pk, rl, ps, cip, mw, dp, pr, ex, fc, bs, rc>>
\* await task returns once the task has ended
lifespan_awaited ==
    /\ rp.phase = "awaiting"
    /\ rp.task[rp.background_tasks[rp.next]].pc = "terminated"
    /\ rp' = [rp EXCEPT !.phase = "stopping", !.next = rp.next + 1]
    /\ UNCHANGED <<flowVars, pk, rl, ps, cip, mw, dp, pr, ex, fc, bs, rc>>
InitReaper ==
    /\ backend \in Backends
    /\ InitFlow
    /\ pk = PkIdle
    /\ rl = RlIdle
    /\ ps = PsIdle
    /\ cip = CipIdle
    /\ mw = MwIdle
    /\ dp = NoRequest
    /\ pr = PrIdle
    /\ ex = ExIdle
    /\ fc = FcIdle
    /\ rp = RpIdle
    /\ bs = BsIdle
    /\ rc = RcIdle
NextReaper ==
    \/ \E built \in BOOLEAN : lifespan_startup(built)
    \/ \E s \in DOMAIN rp.task, raised \in BOOLEAN : cleanup_tick(s, raised)
    \/ \E s \in DOMAIN rp.task : cleanup_wake(s)
    \/ lifespan_shutdown
    \/ lifespan_cancel
    \/ \E s \in DOMAIN rp.task : cleanup_cancelled(s)
    \/ lifespan_awaited
\* the event loop runs every task that is ready and every sleep ends
SpecReaper ==
    /\ InitReaper
    /\ [][NextReaper]_vars
    /\ \A s \in DOMAIN RpIdle.task :
           /\ WF_vars(cleanup_wake(s))
           /\ WF_vars(cleanup_cancelled(s))

(***************************************************************************)
(* A request whose body is streamed through MaxBodySizeMiddleware          *)
(***************************************************************************)
\* the application awaits limited_receive() and the server has an http.request message of
\* `chunk` bytes: the chunk is counted, and delivered unless the count is over the limit
limited_receive(chunk, more) ==
    /\ bs.phase = "app"
    /\ bs.more_body
    /\ bs.chunks < MaxChunks
    /\ LET total_received == bs.total_received + chunk
           counted == [bs EXCEPT !.total_received = total_received, !.chunks = bs.chunks + 1]
       IN  bs' = IF too_large(total_received, chunk)
                 THEN on_overflow(counted)
                 ELSE [counted EXCEPT !.delivered = bs.delivered + chunk, !.more_body = more]
    /\ UNCHANGED <<flowVars, pk, rl, ps, cip, mw, dp, pr, ex, fc, rp, rc>>
\* the application awaits limited_receive() and the client is gone: http.disconnect is passed on
\* uncounted
limited_receive_disconnect ==
    /\ bs.phase = "app"
    /\ bs.more_body
    /\ bs' = [bs EXCEPT !.more_body = FALSE]
    /\ UNCHANGED <<flowVars, pk, rl, ps, cip, mw, dp, pr, ex, fc, rp, rc>>
\* the application sends http.response.start through tracking_send
tracking_send ==
    /\ bs.phase = "app"
    /\ ~bs.response_started
    /\ bs' = [bs EXCEPT !.response_started = TRUE]
    /\ UNCHANGED <<flowVars, pk, rl, ps, cip, mw, dp, pr, ex, fc, rp, rc>>
\* the application returns, its response sent
app_returned ==
    /\ bs.phase = "app"
    /\ bs.response_started
    /\ bs' = [bs EXCEPT !.phase = "done"]
    /\ UNCHANGED <<flowVars, pk, rl, ps, cip, mw, dp, pr, ex, fc, rp, rc>>
InitBody ==
    /\ backend = "memory"
    /\ InitFlow
    /\ pk = PkIdle
    /\ rl = RlIdle
    /\ ps = PsIdle
    /\ cip = CipIdle
    /\ mw = MwIdle
    /\ dp = NoRequest
    /\ pr = PrIdle
    /\ ex = ExIdle
    /\ fc = FcIdle
    /\ rp = RpIdle
    /\ bs = BsIdle
    /\ rc = RcIdle
NextBody ==
    \/ \E chunk \in ChunkSizes, more \in BOOLEAN : limited_receive(chunk, more)
    \/ limited_receive_disconnect
    \/ tracking_send
    \/ app_returned
SpecBody == InitBody /\ [][NextBody]_vars

(***************************************************************************)
(* One operation after another on the remote cache                         *)
(***************************************************************************)
\* insert, get, update or delete is called: _execute_with_retry submits the request
cache_call(op) ==
    /\ rc.pc \in {"idle", "done"}
    /\ rc' = [RcIdle EXCEPT !.pc = "first", !.op = op, !.submissions = 1, !.access_token = rc.access_token]
    /\ UNCHANGED <<flowVars, pk, rl, ps, cip, mw, dp, pr, ex, fc, rp, bs>>
\* the first submit_request ends: the token refresh is submitted, or the operation ends
first_response(resp_obj) ==
    /\ rc.pc = "first"
    /\ rc' = IF resp_obj.status # 0 /\ should_retry(resp_obj)
             THEN [rc EXCEPT !.pc = "refresh", !.first = resp_obj, !.refreshes = rc.refreshes + 1]
             ELSE [rc EXCEPT !.pc = "done", !.first = resp_obj, !.result = cache_result(resp_obj)]
    /\ UNCHANGED <<flowVars, pk, rl, ps, cip, mw, dp, pr, ex, fc, rp, bs>>
\* the request of regenerate_analytics_oauth_token ends: the token is stored and the request
\* submitted again, or the operation ends in the exception
refresh_response(oauth_resp_obj) ==
    /\ rc.pc = "refresh"
    /\ rc' = IF regenerate_analytics_oauth_token(oauth_resp_obj) = "ok"
             THEN [rc EXCEPT !.pc = "second", !.refresh = oauth_resp_obj,
                             !.access_token = 1 - rc.access_token, !.submissions = rc.submissions + 1]
             ELSE [rc EXCEPT !.pc = "done", !.refresh = oauth_resp_obj,
                             !.result = regenerate_analytics_oauth_token(oauth_resp_obj)]
    /\ UNCHANGED <<flowVars, pk, rl, ps, cip, mw, dp, pr, ex, fc, rp, bs>>
\* the second submit_request ends, and the operation with it
second_response(resp_obj) ==
    /\ rc.pc = "second"
    /\ rc' = [rc EXCEPT !.pc = "done", !.second = resp_obj, !.result = cache_result(resp_obj)]
    /\ UNCHANGED <<flowVars, pk, rl, ps, cip, mw, dp, pr, ex, fc, rp, bs>>
InitCache ==
    /\ backend = "catalyst"
    /\ InitFlow
    /\ pk = PkIdle
    /\ rl = RlIdle
    /\ ps = PsIdle
    /\ cip = CipIdle
    /\ mw = MwIdle
    /\ dp = NoRequest
    /\ pr = PrIdle
    /\ ex = ExIdle
    /\ fc = FcIdle
    /\ rp = RpIdle
    /\ bs = BsIdle
    /\ rc = RcIdle
NextCache ==
    \/ \E op \in CacheOperations : cache_call(op)
    \/ \E resp_obj \in CacheResponses : first_response(resp_obj)
    \/ \E oauth_resp_obj \in OAuthResponses : refresh_response(oauth_resp_obj)
    \/ \E resp_obj \in CacheResponses : second_response(resp_obj)
SpecCache == InitCache /\ [][NextCache]_vars

(***************************************************************************)
(* The in-memory store written with and without a TTL                      *)
(***************************************************************************)
\* set(key, value) has ttl_in_sec = None, which is 0 here
OptionalTtls == ProbeTtls \cup {0}
NextEvict ==
    \/ \E k \in ProbeKeys, ttl \in OptionalTtls : probe_set(k, ttl)
    \/ \E k \in ProbeKeys : probe_delete(k)
    \/ \E k \in ProbeKeys : probe_get(k)
    \/ probe_reap
    \/ probe_tick
SpecEvict == InitStore /\ [][NextEvict]_vars
(***************************************************************************)
(* Properties                                                              *)
(***************************************************************************)
IssuedCode(k) == k \in 1..Len(issued)
\* a /token response to a request that authenticated and named a code of its own client
\* which the store held, unexpired, when the request arrived
OwnLiveCode ==
    /\ resp.ep = "/token"
    /\ resp.authentic
    /\ resp.entry = "live"
    /\ IssuedCode(resp.key)
    /\ issued[resp.key].client_id = resp.client_id
Rejected(status, detail) == resp.status = status /\ resp.detail = detail

\* C1, as stated: once a proxy code has been exchanged (upstream 200), every later /token
\* request presenting it, whatever its client credentials, is answered 400 invalid_grant.
C1_LateAlwaysInvalidGrant ==
    resp.ep = "/token" /\ resp.late => Rejected(400, "invalid_grant")
\* C1, amended: once a proxy code has been exchanged (upstream 200), a later /token request
\* presenting it never reaches the upstream exchange; it is answered 400 invalid_grant when
\* its client credentials are valid and 401 invalid_client when they are not.
C1_SingleUseSequential ==
    /\ \A w \in Workers : tok[w].pc # "idle" => ~tok[w].late
    /\ resp.ep = "/token" /\ resp.late =>
           IF resp.authentic THEN Rejected(400, "invalid_grant") ELSE Rejected(401, "invalid_client")
C1_Witness ==
    /\ resp.ep = "/token" /\ resp.late /\ resp.authentic /\ resp.verifier
    /\ resp.key \in consumed
    /\ Rejected(400, "invalid_grant")

\* C2, as stated: of the /token requests that workers sharing one store handle concurrently
\* for the same proxy code, at most one reads the code and calls the upstream exchange: no two
\* workers are in upstream_token_exchange for the same code.
C2_AtMostOneExchange ==
    \A v, w \in Workers :
        /\ v # w
        /\ tok[v].pc = "await" /\ tok[v].grant_type = "authorization_code"
        /\ tok[w].pc = "await" /\ tok[w].grant_type = "authorization_code"
        => tok[v].code # tok[w].code

\* C3: while /token awaits the upstream exchange of a proxy code, and when that exchange has
\* failed with 502, the code is no longer in the code store; a retry with the code by an
\* authenticated client is answered 400 invalid_grant.
C3_DeletedBeforeUpstream ==
    /\ \A w \in Workers :
           tok[w].pc = "await" /\ tok[w].grant_type = "authorization_code"
           => tok[w].code \notin DOMAIN auth_codes_store.data
    /\ resp.ep = "/token" /\ resp.status = 502 /\ IssuedCode(resp.key)
           => resp.key \notin DOMAIN auth_codes_store.data
    /\ resp.ep = "/token" /\ resp.retry /\ resp.authentic => Rejected(400, "invalid_grant")
C3_Witness ==
    /\ resp.ep = "/token" /\ resp.retry /\ resp.authentic
    /\ resp.key \in failed
    /\ resp.key \notin DOMAIN auth_codes_store.data
    /\ Rejected(400, "invalid_grant")

\* C4: a /token request on its way to the upstream exchange, or answered from it, presents a
\* proxy code issued to the client it authenticated as; an authenticated request presenting a
\* code issued to another client is answered 400 invalid_grant.
C4_CodeBoundToClient ==
    /\ \A w \in Workers :
           tok[w].pc \in {"delete", "await"} /\ tok[w].grant_type = "authorization_code"
           => IssuedCode(tok[w].code) /\ issued[tok[w].code].client_id = tok[w].client_id
    /\ resp.ep = "/token" /\ resp.status \in {200, 502} /\ resp.entry = "live"
           => IssuedCode(resp.key) /\ issued[resp.key].client_id = resp.client_id
    /\ resp.ep = "/token" /\ resp.authentic /\ IssuedCode(resp.key)
       /\ issued[resp.key].client_id # resp.client_id
           => Rejected(400, "invalid_grant")
C4_Witness ==
    /\ resp.ep = "/token" /\ resp.authentic /\ resp.entry = "live" /\ resp.verifier
    /\ IssuedCode(resp.key)
    /\ issued[resp.key].client_id # resp.client_id
    /\ Rejected(400, "invalid_grant")

\* verifiers of 43 and of 128 characters over the allowed alphabet, each with the challenge a
\* client derives from it: base64url without padding of its SHA-256 digest
PkcePairs == {<<VerifierA, ChallengeA>>, <<VerifierB, ChallengeB>>, <<VerifierLong, ChallengeLong>>}
S256Spellings == {S256, <<115, 50, 53, 54>>}

\* C5: when the stored challenge is the one derived from a verifier V and the stored method
\* is S256 in either letter case, validate_pkce accepts V and rejects every other well-formed
\* verifier with invalid_grant.
C5_PkceS256RoundTrip ==
    \A p \in PkcePairs :
        pk.outcome # "unused" /\ pk.code_challenge = p[2] /\ pk.method \in S256Spellings
        => /\ pk.code_verifier = p[1] => pk.outcome = "ok"
           /\ pk.code_verifier \in {q[1] : q \in PkcePairs} \ {p[1]} => pk.outcome = "invalid_grant"
C5_Witness ==
    /\ pk.code_verifier = VerifierLong /\ pk.code_challenge = ChallengeLong
    /\ pk.method = <<115, 50, 53, 54>>
    /\ pk.outcome = "ok"

\* C6, as stated: a /token request with valid client credentials and no code_verifier, for a
\* valid code whose authorization request carried no code_challenge, proceeds to the upstream
\* exchange.
C6_NoChallengeFlowCompletes ==
    OwnLiveCode /\ issued[resp.key].code_challenge = <<>> /\ ~resp.verifier
    => resp.status \in {200, 502}
\* C6, amended: /authorize accepts a request without code_challenge and a proxy code is issued
\* for it, but /token answers 400 invalid_request to every request for such a code (valid
\* code, valid client credentials, with or without code_verifier), as it does to a request
\* without code_verifier for a code that has a challenge; only a request that presents a
\* verifier for a code that has a challenge reaches the upstream exchange.
C6_ChallengeRequiredAtToken ==
    /\ OwnLiveCode /\ issued[resp.key].code_challenge = <<>> => Rejected(400, "invalid_request")
    /\ OwnLiveCode /\ ~resp.verifier => Rejected(400, "invalid_request")
    /\ \A w \in Workers :
           tok[w].pc \in {"delete", "await"} /\ tok[w].grant_type = "authorization_code"
           => tok[w].verifier /\ issued[tok[w].code].code_challenge # <<>>
C6_Witness ==
    /\ OwnLiveCode /\ issued[resp.key].code_challenge = <<>> /\ ~resp.verifier
    /\ StoreHas(auth_codes_store, resp.key)
    /\ Rejected(400, "invalid_request")

\* C7, as stated: /auth/callback issues a proxy code for a transaction only if
\* /consent/approve succeeded for that transaction before.
C7_IssuedOnlyAfterApproval ==
    \A i \in 1..Len(issued) : issued[i].transaction_id \in approved

\* C8, as stated: once /auth/callback has issued a proxy code for a transaction, a second
\* /auth/callback with the same state issues no further code: no two proxy codes belong to
\* one transaction.
C8_TransactionConsumedAtCallback ==
    \A i, j \in 1..Len(issued) : i # j => issued[i].transaction_id # issued[j].transaction_id

\* C9, as stated: /auth/callback for a live transaction and without location stores a proxy
\* code and answers with the 302 redirect to the client, as it does when location is present.
C9_LocationOptional ==
    resp.ep = "/auth/callback" /\ resp.entry = "live" /\ resp.location = NoneVal
    => resp.status = 302 /\ StoreHas(auth_codes_store, resp.out)

TransactionEndpoints == {"/consent", "/consent/approve", "/auth/callback"}
\* a response of an endpoint that looked the transaction up (at /consent/approve the CSRF
\* check comes first and answers 403)
LookedUp(entry) == resp.ep \in TransactionEndpoints /\ resp.status # 403 /\ resp.entry = entry
ConsentPastTtl ==
    /\ resp.ep = "/consent"
    /\ resp.key \in 1..nTxns
    /\ now = AUTH_TRANSACTION_TTL_SECONDS + 1
\* C11, as stated: /consent for a transaction created 121 s earlier is answered 400
\* transaction_expired, whether or not the reaper has run and whichever backend holds it.
C11_PastTtlIsTransactionExpired ==
    ConsentPastTtl => Rejected(400, "transaction_expired")
\* C11, amended: /consent for a transaction created 121 s earlier is answered 400; the detail
\* is transaction_expired when the store still returns the entry (in-memory before the reaper
\* has removed it, remote cache with its hour-granular expiry), and the entry is then deleted;
\* it is invalid_transaction when the store returns nothing (in-memory after the reaper ran,
\* Redis after its native expiry at 120 s, any backend after an earlier request deleted it).
C11_PastTtlRejected ==
    ConsentPastTtl =>
        /\ resp.entry \in {"absent", "expired"}
        /\ Rejected(400, IF resp.entry = "absent" THEN "invalid_transaction" ELSE "transaction_expired")
        /\ backend = "redis" => resp.entry = "absent"
        /\ resp.key \notin DOMAIN auth_transactions_store.data
C11_Witness ==
    /\ ConsentPastTtl
    /\ backend = "memory"
    /\ auth_transactions_store.queue = <<>>
    /\ Rejected(400, "invalid_transaction")

\* C12, as stated: /authorize stores a transaction and answers 302 to /consent whenever
\* client_id is registered and redirect_uri is one of the client's registered redirect_uris
\* (and only then); an unknown client gets 401, an unregistered redirect_uri 400
\* invalid_redirect_uri.
C12_AuthorizeIffRegistered ==
    resp.ep = "/authorize" =>
        /\ resp.entry = "registered" <=> resp.status = 302
        /\ resp.entry = "registered" => StoreHas(auth_transactions_store, resp.out)
        /\ resp.entry = "unknown_client" => resp.status = 401
        /\ resp.entry = "unregistered_redirect_uri" => Rejected(400, "invalid_redirect_uri")

\* C13: a step of /consent/approve answers with the 302 to the upstream only when the form's
\* csrf_token is the non-empty token of the session; otherwise it answers 403 'Invalid CSRF
\* token', leaves the session without csrf_token and leaves the transaction store as it was
\* (an expired transaction is not deleted).
C13_CsrfGate ==
    [][resp = NoResp /\ resp'.ep = "/consent/approve" =>
           /\ resp'.status = 302 => resp'.authentic /\ session # 0
           /\ ~resp'.authentic =>
                  /\ resp'.status = 403 /\ resp'.detail = "Invalid CSRF token"
                  /\ session' = 0
                  /\ auth_transactions_store' = auth_transactions_store
                  /\ approved' = approved]_vars
C13_Witness ==
    /\ resp.ep = "/consent/approve" /\ ~resp.authentic
    /\ Rejected(403, "Invalid CSRF token")
    /\ nCsrf > 0 /\ session = 0
    /\ resp.entry = "expired" /\ resp.key \in DOMAIN auth_transactions_store.data

\* C14: a /token request whose client_id is not in the registry, or whose client_secret is
\* not the stored one, is answered 401 invalid_client whatever its grant_type; the step that
\* answers it leaves the code store and the handlers in progress as they were, so no code is
\* deleted and no upstream exchange starts.
C14_ClientAuthentication ==
    [][resp = NoResp /\ resp'.ep = "/token" /\ ~resp'.authentic =>
           /\ resp'.status = 401 /\ resp'.detail = "invalid_client"
           /\ auth_codes_store' = auth_codes_store
           /\ tok' = tok
           /\ consumed' = consumed /\ failed' = failed]_vars
C14_Witness ==
    /\ resp.ep = "/token" /\ ~resp.authentic
    /\ resp.client_id \in DOMAIN registed_clients_store.data
    /\ resp.entry = "live" /\ resp.verifier
    /\ StoreHas(auth_codes_store, resp.key)
    /\ issued[resp.key].client_id = resp.client_id
    /\ Rejected(401, "invalid_client")

\* the static upstream client credentials, and the upstream authorization code, which
\* proxy_callback receives as `code` and stores as upstream_code
UpstreamSecrets == {"OIDC_PROVIDER_CLIENT_ID", "OIDC_PROVIDER_CLIENT_SECRET", "code", "upstream_code"}
DownstreamEndpoints == {"/register", "/authorize", "/auth/callback", "/token"}
CallInWindow(n) ==
    /\ rl.last.op = "allow"
    /\ rl.last.n = n
    /\ rl.last.at - rl.last.first < WindowTicks

GetPastTtl(after) ==
    /\ ps.got.op = "get"
    /\ ps.written[ps.got.key].op = "set"
    /\ ps.got.at > ps.written[ps.got.key].at + ps.written[ps.got.key].ttl + after

\* C19: in the in-memory store with the reaper running, whatever sets and deletes were made,
\* if set(k, v, ttl) is the last write to k then a get(k) more than ttl + reaper_period after
\* it returns none.
C19_GoneAfterTtlPlusReaperPeriod == GetPastTtl(REAPER_PERIOD) => ~ps.got.hit

(***************************************************************************)
(* C20  get(key) and expired entries                                       *)
(***************************************************************************)
\* C20: get(key) never returns an entry whose TTL has passed, whether or not the reaper has
\* run since.
C20_GetNeverReturnsExpired == GetPastTtl(0) => ~ps.got.hit

(***************************************************************************)
(* C21  the in-memory store as a map                                       *)
(***************************************************************************)
\* C21: in the in-memory store, with the reaper running, a get(k) made before the expiry of the
\* most recent set(k, v, ttl), that set not having been followed by a delete(k), returns v.
C21_GetReturnsLastSetBeforeExpiry ==
    /\ ps.got.op = "get"
    /\ ps.got.last.op = "set"
    /\ ps.got.at < ps.got.last.at + ps.got.last.ttl
    => ps.got.hit /\ ps.got.value = ps.got.last.value

(***************************************************************************)
(* C22  the client address does not depend on forwarded headers unless     *)
(*      the socket peer is a trusted proxy                                 *)
(***************************************************************************)
\* get_client_ip was applied to a request with a socket peer, and BEHIND_PROXY is not set or the
\* peer lies in no network of TRUSTED_PROXY_LIST
PeerNotTrusted ==
    /\ cip.result # "unused"
    /\ cip.connecting_ip # ""
    /\ ~cip.settings.BEHIND_PROXY \/ ~_is_trusted_proxy(cip.settings, cip.connecting_ip)

\* C22: when BEHIND_PROXY is false, or the socket peer lies in no network of TRUSTED_PROXY_LIST,
\* get_client_ip returns the socket peer address, and so returns the same for any other
\* X-Forwarded-For and X-Real-IP headers sent from that peer.
C22_UntrustedPeerIsClientIp ==
    PeerNotTrusted =>
        /\ cip.result = cip.connecting_ip
        /\ \A xff \in ForwardedFor, x_real_ip \in {"", OtherAddress} :
               get_client_ip(cip.settings, cip.connecting_ip, xff, x_real_ip) = cip.result

(***************************************************************************)
(* C23  body-size guard, declared length                                   *)
(***************************************************************************)
Ran(component) == \E i \in 1..Len(mw.ran) : mw.ran[i] = component
\* the component answered the request itself, with this status, and called nothing further
AnsweredBy(component, status) ==
    /\ mw.rest = <<>>
    /\ mw.ran[Len(mw.ran)] = component
    /\ component \notin mw.passed
    /\ mw.response.status = status
DeclaredLength == int(mw.content_length.text)

\* C23 as stated: a numeric Content-Length greater than or equal to max_body_size is answered
\* 413 without the downstream application being invoked, a Content-Length that is not numeric
\* is answered 400 likewise, and a numeric Content-Length below the limit is passed on.
C23_DeclaredLengthAtOrOverLimitRejected ==
    Ran("MaxBodySizeMiddleware") /\ mw.content_length.present =>
        /\ DeclaredLength.ok /\ DeclaredLength.value >= max_body_size
               => AnsweredBy("MaxBodySizeMiddleware", 413)
        /\ ~DeclaredLength.ok => AnsweredBy("MaxBodySizeMiddleware", 400)
        /\ DeclaredLength.ok /\ DeclaredLength.value < max_body_size
               => "MaxBodySizeMiddleware" \in mw.passed

\* C23: a numeric Content-Length greater than max_body_size is answered 413 without the
\* downstream application being invoked, a Content-Length that is not numeric is answered 400
\* likewise, and a numeric Content-Length equal to the limit or below it is passed on.
C23_DeclaredLengthOverLimitRejected ==
    Ran("MaxBodySizeMiddleware") /\ mw.content_length.present =>
        /\ DeclaredLength.ok /\ DeclaredLength.value > max_body_size
               => AnsweredBy("MaxBodySizeMiddleware", 413)
        /\ ~DeclaredLength.ok => AnsweredBy("MaxBodySizeMiddleware", 400)
        /\ DeclaredLength.ok /\ DeclaredLength.value <= max_body_size
               => "MaxBodySizeMiddleware" \in mw.passed
\* a request declaring exactly max_body_size bytes has passed the guard and reached the router
C23_Witness ==
    /\ mw.content_length.present
    /\ DeclaredLength.ok /\ DeclaredLength.value = max_body_size
    /\ "MaxBodySizeMiddleware" \in mw.passed
    /\ Ran("router")

(***************************************************************************)
(* C24  bearer gate                                                        *)
(***************************************************************************)
\* C24: for a path that is not exempt the bearer validator calls the rest of the stack, and so
\* the handler is reached, only after the Authorization header has split into exactly two parts
\* with scheme bearer in any case and the probe with that token has been made and has returned;
\* for an exempt path the validator always calls the rest of the stack and makes no probe.
C24_BearerGate ==
    /\ Ran("router") => "AuthMiddleware" \in mw.passed
    /\ ~Exempt(mw.path) /\ "AuthMiddleware" \in mw.passed =>
           /\ Len(mw.authorization) = 2
           /\ lower(mw.authorization[1]) = "bearer"
           /\ mw.probes = 1
           /\ mw.probe = "ok"
    /\ Exempt(mw.path) /\ Ran("AuthMiddleware") => "AuthMiddleware" \in mw.passed /\ mw.probes = 0
\* a request to a protected path with "BEARER t" has reached the router after one probe
C24_Witness ==
    /\ mw.path = <<"mcp">>
    /\ mw.authorization = <<"BEARER", "t">>
    /\ mw.probes = 1
    /\ Ran("router")

(***************************************************************************)
(* C25  failures of the bearer validator are flattened to 401              *)
(***************************************************************************)
\* the bearer validator made the probe and the probe raised
ProbeRaised == Ran("AuthMiddleware") /\ mw.probes = 1 /\ mw.probe # "ok"

\* C25: whatever exception the probe raises, the bearer validator answers 401 with error
\* invalid_token and does not call the handler; and every 401 the validator produces carries
\* the WWW-Authenticate header naming /.well-known/oauth-protected-resource.
C25_FailuresFlattenedTo401 ==
    /\ ProbeRaised => AnsweredBy("AuthMiddleware", 401) /\ mw.response.error = "invalid_token"
    /\ Ran("AuthMiddleware") /\ mw.response.status = 401 =>
           mw.response.www_authenticate =
               "Bearer realm=OAuth, resource_metadata=.well-known/oauth-protected-resource"

(***************************************************************************)
(* C26  order of the middlewares                                           *)
(***************************************************************************)
\* the request declares a numeric Content-Length over the limit
Oversized == mw.content_length.present /\ DeclaredLength.ok /\ DeclaredLength.value > max_body_size

\* C26: every request passes, outermost first, the body-size guard, the bearer validator, the
\* session middleware and the router; an oversized request to a protected path is answered 413
\* by the body-size guard before the bearer validator runs, so no probe is made for it.
C26_BodySizeGuardOutermost ==
    /\ \A i \in 1..Len(mw.ran) :
           mw.ran[i] = <<"MaxBodySizeMiddleware", "AuthMiddleware", "SessionMiddleware", "router">>[i]
    /\ Oversized /\ ~Exempt(mw.path) =>
           /\ ~Ran("AuthMiddleware")
           /\ mw.probes = 0
           /\ mw.rest = <<>> => AnsweredBy("MaxBodySizeMiddleware", 413)

(***************************************************************************)
(* C27  error mapping of validate_pkce                                     *)
(***************************************************************************)
\* the verifier is 43 to 128 characters of [A-Za-z0-9-._~] and nothing else
WellFormedVerifier(v) == Len(v) >= 43 /\ Len(v) <= 128 /\ \A i \in 1..Len(v) : v[i] \in PkceAlphabet
\* the stored method is S256 or plain in any case, or absent
KnownMethod(method) == method = <<>> \/ upper(method) \in {S256, PLAIN}
\* the value the verifier stands for under the stored method
Computed(v, method) == IF upper(method) = S256 THEN _base64url_no_pad(sha256(v)) ELSE v

\* C27: with a code_challenge stored, a missing code_verifier gives invalid_request, a verifier
\* not matching [A-Za-z0-9-._~]{43,128} gives invalid_request, a stored method other than S256 or
\* plain gives invalid_request, a well-formed verifier whose computed value differs from the
\* stored challenge gives invalid_grant, and the only outcomes are these and acceptance.
C27_PkceErrorMapping ==
    pk.outcome # "unused" /\ pk.code_challenge # <<>> =>
        /\ pk.code_verifier = <<>> => pk.outcome = "invalid_request"
        /\ ~WellFormedVerifier(pk.code_verifier) => pk.outcome = "invalid_request"
        /\ ~KnownMethod(pk.method) => pk.outcome = "invalid_request"
        /\ (/\ WellFormedVerifier(pk.code_verifier)
            /\ KnownMethod(pk.method)
            /\ Computed(pk.code_verifier, pk.method) # pk.code_challenge) => pk.outcome = "invalid_grant"
        /\ pk.outcome \in {"ok", "invalid_request", "invalid_grant"}

(***************************************************************************)
(* C28  grant dispatch at /token                                           *)
(***************************************************************************)
\* the response to the request in dp is out
TokenAnswered == resp.ep = "/token"
\* a step of the /token handler
HandlerStep == tok' # tok \/ (resp' # resp /\ resp' # NoResp)
\* the request in dp is a refresh_token grant that carries a refresh_token
RefreshGrant == dp.grant_type = "refresh_token" /\ dp.refresh_token # ""

\* C28: for an authenticated client the upstream token endpoint is called only for grant_type
\* authorization_code, after the code and PKCE were validated, or for refresh_token with a
\* non-empty refresh_token; any other grant_type is answered 400 unsupported_grant_type and an
\* empty refresh_token 400, both without an upstream call and without a change to the code store;
\* a refresh_token grant neither reads nor deletes an authorization code.
C28_GrantDispatch ==
    /\ [](/\ tok[1].pc = "await" => dp.grant_type = "authorization_code" \/ RefreshGrant
          /\ dp.grant_type # "authorization_code" => tok[1].pc \in {"idle", "await"}
          /\ TokenAnswered /\ resp.authentic /\ dp.grant_type \notin {"authorization_code", "refresh_token"}
                 => resp.status = 400 /\ resp.detail = "unsupported_grant_type"
          /\ TokenAnswered /\ resp.authentic /\ dp.grant_type = "refresh_token" /\ dp.refresh_token = ""
                 => resp.status = 400 /\ resp.detail = "refresh_token_required"
          /\ TokenAnswered /\ dp.grant_type = "refresh_token"
                 => resp.detail \in {"invalid_client", "refresh_token_required", "upstream_tokens",
                                     "upstream_token_exchange_failed"})
    /\ [][/\ HandlerStep /\ dp.grant_type # "authorization_code" => auth_codes_store' = auth_codes_store
          /\ HandlerStep /\ tok[1].pc = "idle" /\ RefreshGrant /\ ClientAuthentic(dp.client_id, dp.client_secret)
                 => tok'[1].pc = "await"
          /\ tok[1].pc = "idle" /\ tok'[1].pc \in {"delete", "await"} /\ dp.grant_type = "authorization_code"
                 => /\ StoreHas(auth_codes_store, dp.code)
                    /\ StoreGet(auth_codes_store, dp.code).client_id = dp.client_id
                    /\ validate_pkce(dp.code_verifier, StoreGet(auth_codes_store, dp.code).code_challenge,
                                     StoreGet(auth_codes_store, dp.code).code_challenge_method) = "ok"]_vars
\* a refresh_token grant that names the live code 1 is at the upstream call, the code still stored
C28_Witness ==
    /\ tok[1].pc = "await"
    /\ RefreshGrant
    /\ dp.code = 1
    /\ StoreHas(auth_codes_store, 1)

(***************************************************************************)
(* C29  partial refill                                                     *)
(***************************************************************************)
\* floor(d * C / W) for the instant the key is now called at
PartialRefill == ((pr.t - pr.exhausted_at) * pr.capacity) \div WindowTicks

C30_TokensInRange ==
    \A k \in RlKeys :
        /\ rl.buckets[k] # NoBucket =>
               rl.buckets[k].tokens >= 0 /\ rl.buckets[k].tokens <= rl.capacity * WindowTicks
        /\ rl.redis[k] # NoRedisBucket =>
               rl.redis[k].tokens >= 0 /\ rl.redis[k].tokens <= rl.capacity * WindowTicks
\* allow_tokens took the whole of a partly refilled Redis bucket while the in-process bucket of
\* the key, reset as stale, holds capacity - 1 tokens
C30_Witness ==
    /\ rl.last.op = "allow_tokens"
    /\ rl.last.requested = 2
    /\ rl.last.redis
    /\ rl.redis["ip1"].tokens < WindowTicks
    /\ rl.buckets["ip1"] # NoBucket
    /\ rl.buckets["ip1"].last_refill > 0
    /\ rl.buckets["ip1"].last_access = rl.buckets["ip1"].last_refill

(***************************************************************************)
(* C31  stale-key reset of the in-process limiter                          *)
(***************************************************************************)
\* this step is allow(key) of the in-process limiter on a key that has a bucket
AllowOnBucket(key) ==
    /\ rl'.t = rl.t
    /\ rl' # rl
    /\ rl'.last.op = "allow"
    /\ rl'.last.key = key
    /\ rl.buckets[key] # NoBucket
\* the key was last admitted more than entry_ttl_seconds ago
Stale(key) == rl.t - rl.buckets[key].last_access > rl.entry_ttl_seconds
\* the tokens of the key's bucket once the time since last_refill is credited
Credited(key) ==
    Min(rl.capacity * WindowTicks,
        rl.buckets[key].tokens + (rl.t - rl.buckets[key].last_refill) * rl.capacity)

\* C31: allow(key) on a bucket whose last_access is more than entry_ttl_seconds old admits the
\* call and leaves tokens = capacity - 1, last_refill = last_access = now, as for a key never
\* seen and whatever the bucket held; when last_access is at most entry_ttl_seconds old the
\* bucket is not reset: the call is decided on the credited tokens and one token is taken if it
\* is admitted.
C31_StaleKeyReset ==
    [][\A key \in RlKeys :
           AllowOnBucket(key) =>
               IF Stale(key)
               THEN /\ rl'.last.mem
                    /\ rl'.buckets[key] = _Bucket((rl.capacity - 1) * WindowTicks, rl.t, rl.t)
               ELSE /\ rl'.last.mem = (Credited(key) >= WindowTicks)
                    /\ rl'.buckets[key].tokens =
                           Credited(key) - (IF rl'.last.mem THEN WindowTicks ELSE 0)
                    /\ ~rl'.last.mem => rl'.buckets[key].last_access = rl.buckets[key].last_access]_vars
\* with capacity 2, a key called more than entry_ttl_seconds after its last admission was reset
C31_Witness ==
    /\ rl.last.op = "allow"
    /\ rl.last.access_before # -1
    /\ rl.last.at - rl.last.access_before > rl.entry_ttl_seconds
    /\ rl.capacity = 2
    /\ rl.last.n = 1
    /\ rl.buckets[rl.last.key] = _Bucket(WindowTicks, rl.last.at, rl.last.at)

(***************************************************************************)
(* C32  allow_tokens of the Redis limiter                                  *)
(***************************************************************************)
\* this step is allow_tokens(key, n) of the Redis limiter
AllowTokensStep(key) ==
    /\ rl'.t = rl.t
    /\ rl' # rl
    /\ rl'.last.op = "allow_tokens"
    /\ rl'.last.key = key
\* the tokens of the key's hash after the refill: capacity when the key does not exist
AfterRefill(key) ==
    IF rl.redis[key] = NoRedisBucket \/ rl.t > rl.redis[key].expire_at
    THEN rl.capacity * WindowTicks
    ELSE Min(rl.capacity * WindowTicks,
             rl.redis[key].tokens + (rl.t - rl.redis[key].last_refill) * rl.capacity)

\* C32: allow_tokens(key, n) of the Redis limiter is admitted if and only if the tokens of the
\* bucket after the refill (capacity for a new key) are at least n; an admitted call takes
\* exactly n tokens and a denied call takes none.
C32_AllowTokens ==
    [][\A key \in RlKeys :
           AllowTokensStep(key) =>
               /\ rl'.last.redis = (AfterRefill(key) >= rl'.last.requested * WindowTicks)
               /\ rl'.redis[key].tokens =
                      AfterRefill(key) - (IF rl'.last.redis THEN rl'.last.requested * WindowTicks ELSE 0)]_vars
\* with capacity 2, allow_tokens(key, 2) was denied on a bucket holding more than one token and
\* fewer than two, and left them there
C32_Witness ==
    /\ rl.capacity = 2
    /\ rl.last.op = "allow_tokens"
    /\ rl.last.requested = 2
    /\ ~rl.last.redis
    /\ rl.redis[rl.last.key].tokens > WindowTicks
    /\ rl.redis[rl.last.key].tokens < 2 * WindowTicks

(***************************************************************************)
(* C33  expiry of the Redis key                                            *)
(***************************************************************************)
\* this step is one execution of the token-bucket script for the key
ScriptStep(key) ==
    /\ rl'.t = rl.t
    /\ rl' # rl
    /\ rl'.last.op \in {"allow", "allow_tokens"}
    /\ rl'.last.key = key
\* the key had a bucket and its expiration has elapsed
Elapsed(key) == rl.redis[key] # NoRedisBucket /\ rl.t > rl.redis[key].expire_at

\* C33: every execution of the token-bucket script, admitted or denied, sets the expiration of
\* the key to ceil(capacity / rate_per_ms), which is window_seconds * 1000 ms; once it has
\* elapsed the bucket is gone and the next allow(key) is admitted as the first call of a key.
C33_RedisKeyExpiry ==
    /\ [](ex.ttl # -1 => ex.ttl = ex.window_seconds * 1000)
    /\ [][\A key \in RlKeys :
              ScriptStep(key) =>
                  /\ rl'.redis[key].expire_at = rl.t + WindowTicks
                  /\ Elapsed(key) /\ rl'.last.op = "allow" =>
                         /\ rl'.last.redis
                         /\ rl'.redis[key].tokens = (rl.capacity - 1) * WindowTicks
                         /\ rl'.redis[key].last_refill = rl.t]_vars

(***************************************************************************)
(* C34  the limiter factory                                                *)
(***************************************************************************)
\* C34: however the calls of build_rate_limiter interleave, the wait for the Redis client inside
\* the lock included, at most one limiter is constructed for a (capacity, window_seconds) pair,
\* every call that returns a limiter for the pair returns that one, and an entry of the registry,
\* once made, is never replaced.
C34_OneLimiterPerKey ==
    /\ [](/\ \A key \in LimiterKeys : fc.constructed[key] <= 1
          /\ \A t \in Tasks :
                 fc.task[t].pc = "done" /\ fc.task[t].ret # -1 =>
                     /\ fc.task[t].ret = fc.cache[fc.task[t].key]
                     /\ \A u \in Tasks :
                            (/\ fc.task[u].pc = "done"
                             /\ fc.task[u].ret # -1
                             /\ fc.task[u].key = fc.task[t].key) => fc.task[u].ret = fc.task[t].ret)
    /\ [][\A key \in LimiterKeys : fc.cache[key] # 0 => fc'.cache[key] = fc.cache[key]]_vars
\* two tasks waited for the lock with the same pair while a third pinged Redis; all three hold
\* the one limiter of the pair
C34_Witness ==
    /\ backend = "redis"
    /\ \A t \in Tasks : fc.task[t].pc = "done" /\ fc.task[t].key = <<5, 60>> /\ fc.task[t].ret = 1
    /\ fc.builds = NTasks

(***************************************************************************)
(* C35  the reaper keeps running                                           *)
(***************************************************************************)
Reapers == {"registered_clients", "auth_transactions", "auth_codes"}

\* C35: a TTL cleanup task never ends because cleanup_expired raised: after a failing tick it
\* sleeps and comes to its next tick; it ends only by cancellation, and at shutdown the lifespan
\* has cancelled and awaited every background cleanup task it created.
C35_ReaperKeepsRunning ==
    /\ [](/\ \A s \in Reapers : rp.task[s].pc = "terminated" => rp.task[s].cause = "cancelled" /\ rp.task[s].cancel
          /\ rp.phase = "stopped" =>
                 \A s \in DOMAIN rp.task :
                     rp.task[s].pc # "none" => rp.task[s].pc = "terminated" /\ rp.task[s].cancel)
    /\ \A s \in Reapers :
           (rp.task[s].pc = "sleep" /\ rp.task[s].last = "raised")
               ~> (rp.task[s].pc = "tick" \/ (rp.task[s].pc = "terminated" /\ rp.task[s].cause = "cancelled"))
\* the application has stopped after a reaper's tick had raised twice
C35_Witness ==
    /\ rp.phase = "stopped"
    /\ rp.task["auth_codes"].last = "raised"
    /\ rp.task["auth_codes"].runs = 2
    /\ rp.task["auth_codes"].pc = "terminated"

(***************************************************************************)
(* C36  the client address behind a trusted proxy                          *)
(***************************************************************************)
\* the address lies in a network of TRUSTED_PROXY_LIST
InTrustedCidr(ip) == \E net \in cip.settings.TRUSTED_PROXY_LIST : Contained(ip, net)
\* the positions of X-Forwarded-For whose entry lies in no trusted network
UntrustedEntries == {i \in 1..Len(cip.xff) : ~InTrustedCidr(cip.xff[i])}
\* get_client_ip was applied with BEHIND_PROXY set to a request whose socket peer is trusted
BehindTrustedProxy ==
    /\ cip.result # "unused"
    /\ cip.settings.BEHIND_PROXY
    /\ cip.connecting_ip # ""
    /\ InTrustedCidr(cip.connecting_ip)

C37_StreamedBodyWithinLimit ==
    /\ bs.delivered <= max_body_size
    /\ bs.overflow <=> bs.total_received > max_body_size
    /\ bs.overflow /\ ~bs.response_started => bs.sent = <<413>> /\ bs.phase = "done"
    /\ bs.overflow /\ bs.response_started => bs.sent = <<>> /\ bs.phase = "raised"
    /\ ~bs.overflow => bs.sent = <<>> /\ bs.delivered = bs.total_received
\* the third chunk took the body one byte over the limit after the response had started
C37_Witness ==
    /\ bs.overflow
    /\ bs.response_started
    /\ bs.chunks = 3
    /\ bs.delivered = max_body_size
    /\ bs.total_received = max_body_size + 1

(***************************************************************************)
(* C38  the remote cache retries once at most                              *)
(***************************************************************************)
\* the token request was answered 200 with an access token
RefreshSucceeded == rc.refresh.status = 200 /\ rc.refresh.body = "access_token"
\* the token request has ended otherwise
RefreshFailed == rc.refresh # NoCacheResponse /\ ~RefreshSucceeded

\* C38: a cache operation submits its request at most twice; the second submission is made only
\* after a first response that is not 2xx and carries error_code AUTHENTICATION_FAILURE and a
\* token refresh that succeeded; a failed refresh ends the operation in ServerError with no
\* second submission; a second AUTHENTICATION_FAILURE is not retried.
C38_RetryBound ==
    /\ rc.submissions <= 2 /\ rc.refreshes <= 1
    /\ rc.submissions = 2 =>
           /\ ~startswith_2(rc.first.status)
           /\ rc.first.body = "AUTHENTICATION_FAILURE"
           /\ RefreshSucceeded
    /\ RefreshFailed => rc.result = "ServerError" /\ rc.submissions = 1
    /\ rc.second.body = "AUTHENTICATION_FAILURE" /\ ~startswith_2(rc.second.status) =>
           rc.pc = "done" /\ rc.result = "ServerError"
\* the same with the token request answered in JSON or not at all
C38_RetryBoundJson ==
    ~(rc.refresh.status = 200 /\ rc.refresh.body = "not json") => C38_RetryBound

(***************************************************************************)
(* C39  the reaper removes no value before its time                        *)
(***************************************************************************)
\* this step is a sweep of the reaper, and it removes the value of key k
ReaperRemoves(k) ==
    /\ ps'.next_reap # ps.next_reap
    /\ k \in DOMAIN ps.store.data
    /\ k \notin DOMAIN ps'.store.data

\* C39: the reaper removes the value written by set(k, v, ttl) no earlier than ttl seconds after
\* that set, and never removes a value written by set(k, v) without TTL, whatever was written to
\* or deleted at k before.
C39_NoPrematureEviction ==
    [][\A k \in ProbeKeys :
           ReaperRemoves(k) =>
               /\ ps.written[k].ttl # 0
               /\ now >= ps.written[k].at + ps.written[k].ttl]_vars

(***************************************************************************)
(* C40  a /token request rejected for another reason than expiry leaves    *)
(*      the code in place                                                  *)
(***************************************************************************)
\* the request in dp is an authorization_code grant of an authenticated client for a stored code
\* that another client owns, or that is not past expires_at while the request carries no
\* code_verifier or one that does not belong to the stored challenge (VerifierA does)
RejectedNotForExpiry ==
    /\ dp.grant_type = "authorization_code"
    /\ ClientAuthentic(dp.client_id, dp.client_secret)
    /\ StoreHas(auth_codes_store, dp.code)
    /\ \/ StoreGet(auth_codes_store, dp.code).client_id # dp.client_id
       \/ /\ StoreGet(auth_codes_store, dp.code).expires_at >= now
          /\ dp.code_verifier # VerifierA
\* the request in dp is an authorization_code grant of the owner of a stored code that is not
\* past expires_at, and carries the verifier of the stored challenge
OwnerWithVerifier ==
    /\ dp.grant_type = "authorization_code"
    /\ ClientAuthentic(dp.client_id, dp.client_secret)
    /\ StoreHas(auth_codes_store, dp.code)
    /\ StoreGet(auth_codes_store, dp.code).client_id = dp.client_id
    /\ StoreGet(auth_codes_store, dp.code).expires_at >= now
    /\ dp.code_verifier = VerifierA

\* C40: a /token request with grant_type authorization_code for a code that another client owns,
\* or whose PKCE verification fails, is answered 400 and leaves the authorization-code store as
\* it was; the code is not consumed, and the request of its owner with the correct verifier is
\* accepted for as long as the code is stored and not past its expiry.
C40_RejectionKeepsCode ==
    [][/\ HandlerStep /\ RejectedNotForExpiry =>
              /\ auth_codes_store' = auth_codes_store
              /\ tok'[1].pc = "idle"
              /\ resp'.status = 400 /\ resp'.detail \in {"invalid_grant", "invalid_request"}
       /\ HandlerStep /\ tok[1].pc = "idle" /\ OwnerWithVerifier => tok'[1].pc = "delete"]_vars
\* client 2, authenticated, has just been refused code 1 of client 1 with 400 invalid_grant, and
\* the code is still stored as it was issued
C40_Witness ==
    /\ resp.ep = "/token"
    /\ resp.status = 400
    /\ resp.detail = "invalid_grant"
    /\ resp.authentic
    /\ dp.grant_type = "authorization_code"
    /\ dp.client_id = 2
    /\ dp.code = 1
    /\ dp.code_verifier = VerifierA
    /\ StoreHas(auth_codes_store, 1)
    /\ StoreGet(auth_codes_store, 1) = ClusterCode
====
